---- MODULE Spec2Model ----
(***************************************************************************)
(* Planto-Mart backend-server: the review and reaction engine of           *)
(* src/controllers/ProductReviews.ts over the productReviews table, and    *)
(* the product, variant and combination (bundle) handlers over the         *)
(* products, productVariants and productCombinations tables.               *)
(*                                                                         *)
(* Text values (ids, comments, stamps) are sequences of one-character      *)
(* strings, so that String.prototype.trim() and .length are computed and   *)
(* not assumed.  A JSON column (liked_by, disliked_by, replies) holds the  *)
(* value that JSON.parse gives back for it.  A field that is absent from a *)
(* request body (undefined) is a field absent from the record.             *)
(*                                                                         *)
(* Every handler suspends at each storage call.  The products and          *)
(* userProfiles tables are not written by any review handler, so the       *)
(* lookups in them are taken together with the lookup in productReviews    *)
(* ("Read" step); the insert/update/delete is a step of its own ("Write"). *)
(***************************************************************************)
EXTENDS Integers, Sequences, FiniteSets, TLC

VARIABLES products, userProfiles, productReviews, nextReviewId, req, writes,
          productVariants, productCombinations, nextVariantId,
          nextCombinationId, clock

\* what the review handlers never write: the variant and combination
\* tables, their id generators and the clock of Date.now()
catalog == <<productVariants, productCombinations, nextVariantId,
             nextCombinationId, clock>>

vars == <<products, userProfiles, productReviews, nextReviewId, req, writes, catalog>>

----------------------------------------------------------------------------
(* Bounds *)

\* 'Comments must be at least 10 characters long'
MinCommentsLength == 10
\* 'Reply comment must be at least 5 characters long'
MinReplyLength == 5

\* number of requests in one behaviour that get as far as their storage
\* write; requests that fail before it are not counted
MaxWrites == 4

\* the workers that handle requests concurrently
Slots == {1, 2}

\* a review id made of spaces only, as a request may carry it
BlankId == 0

----------------------------------------------------------------------------
(* Text values *)

U1 == <<"u", "1">>
U2 == <<"u", "2">>
\* a uuid that is in no userProfiles row
U9 == <<"u", "9">>
P1 == <<"p", "1">>
P2 == <<"p", "2">>
\* a product_id that createProduct stores
P3 == <<"p", "3">>
\* a product_id that is in no products row
P9 == <<"p", "9">>
\* " p1": the product_id of p1 after a space
PaddedP1 == <<" ", "p", "1">>
\* product_ids of the products a vendor adds to the catalog
P4 == <<"p", "4">>
P5 == <<"p", "5">>
P6 == <<"p", "6">>
\* vendors, and a vendor that sells nothing
V1 == <<"v", "1">>
V2 == <<"v", "2">>
V9 == <<"v", "9">>
\* categories, and a category that holds nothing
Indoor == <<"i", "n">>
Herbs == <<"h", "e">>
Cacti == <<"c", "a">>

\* "good plant": 10 characters
GoodComment == <<"g", "o", "o", "d", " ", "p", "l", "a", "n", "t">>
\* "nice plant": 10 characters
NiceComment == <<"n", "i", "c", "e", " ", "p", "l", "a", "n", "t">>
\* "  bad plant  ": 13 characters, 9 after trim()
PaddedComment == <<" ", " ", "b", "a", "d", " ", "p", "l", "a", "n", "t", " ", " ">>
\* "hello": 5 characters
Hello == <<"h", "e", "l", "l", "o">>
\* " hi  ": 5 characters, 2 after trim()
PaddedHi == <<" ", "h", "i", " ", " ">>
\* "ok": 2 characters
Ok == <<"o", "k">>
\* new Date().toISOString()
Now == <<"T">>

\* a JSON number, as the fraction num/den
Q(num, den) == [type |-> "number", num |-> num, den |-> den]

\* a JSON string where a number is expected
S(text) == [type |-> "string", text |-> text]

\* the column value null
Null == [null |-> TRUE]

RECURSIVE TrimStart(_)
TrimStart(s) == IF s # <<>> /\ Head(s) = " " THEN TrimStart(Tail(s)) ELSE s

RECURSIVE TrimEnd(_)
TrimEnd(s) == IF s # <<>> /\ s[Len(s)] = " " THEN TrimEnd(SubSeq(s, 1, Len(s) - 1)) ELSE s

\* String.prototype.trim
Trim(s) == TrimEnd(TrimStart(s))

\* JavaScript truthiness of a body field holding a string or undefined
Truthy(body, f) == f \in DOMAIN body /\ body[f] # <<>>

\* typeof body.f === 'string'
IsString(body, f) == f \in DOMAIN body

\* Array.prototype.includes
Includes(list, x) == \E i \in 1..Len(list) : list[i] = x

\* list.filter(uuid => uuid !== x)
Without(list, x) == SelectSeq(list, LAMBDA e : e # x)

----------------------------------------------------------------------------
(* Tables *)

\* rows of products, in productSeq order
ProductExists(pid) == \E i \in 1..Len(products) : products[i].product_id = pid

UserExists(uuid) == uuid \in userProfiles

\* rows of productReviews with this review_id, in rowid order
RowsById(id) == {i \in 1..Len(productReviews) : productReviews[i].review_id = id}

\* select().from(productReviews).where(eq(review_id, id)).limit(1)
SelectReview(id) == IF RowsById(id) = {} THEN <<>>
                    ELSE <<productReviews[CHOOSE i \in RowsById(id) : \A j \in RowsById(id) : i <= j]>>

\* select().from(productReviews).where(and(eq(product_id), eq(user_uuid))).limit(1)
SelectReviewOf(pid, uuid) ==
    SelectSeq(productReviews, LAMBDA row : row.product_id = pid /\ row.user_uuid = uuid)

\* update(productReviews).set(data).where(eq(review_id, id)).returning()
UpdateSet(id, data) ==
    [i \in 1..Len(productReviews) |->
        IF productReviews[i].review_id = id
        THEN [f \in DOMAIN productReviews[i] |->
                 IF f \in DOMAIN data THEN data[f] ELSE productReviews[i][f]]
        ELSE productReviews[i]]

\* delete(productReviews).where(eq(review_id, id))
DeleteWhereId(id) == SelectSeq(productReviews, LAMBDA row : row.review_id # id)

----------------------------------------------------------------------------
(* Requests *)

Idle == [pc |-> "idle"]

\* a request that is at its storage write, which will set `data`
Pending(op, id, body, data) ==
    [pc |-> "write", op |-> op, id |-> id, args |-> body, data |-> data]

\* the response of a request that failed before its write
Failed(op, status) == [pc |-> "done", op |-> op, status |-> status]

\* the response of a request that did its write, with the review and the
\* user it was for
Done(op, id, body, status) ==
    [pc |-> "done", op |-> op, id |-> id,
     user_uuid |-> IF "user_uuid" \in DOMAIN body THEN body.user_uuid ELSE <<>>,
     status |-> status]

\* the request is taken up if it fails early or the budget of writes allows it
Take(r, next) ==
    /\ req[r] = Idle
    /\ next.pc = "write" => writes < MaxWrites
    /\ req' = [req EXCEPT ![r] = next]
    /\ writes' = IF next.pc = "write" THEN writes + 1 ELSE writes

\* slot r is at the storage write of handler `op`
AtWrite(r, op) == req[r].pc = "write" /\ req[r].op = op

\* a row of products with the columns the handlers select on
StoredProduct(id, slug, variantState, vendorID, category, featured, discountPercent) ==
    [product_id |-> id, slug |-> slug, variantState |-> variantState,
     vendorID |-> vendorID, category |-> category, featured |-> featured,
     price |-> Q(100, 1), raiting |-> Q(0, 1), discountPercent |-> discountPercent]

Init ==
    /\ products = <<StoredProduct(P1, <<"a">>, TRUE, V1, Indoor, TRUE, Q(25, 1)),
                    StoredProduct(P2, <<"b">>, FALSE, V1, Herbs, FALSE, Null)>>
    /\ userProfiles = {U1, U2}
    /\ productReviews = <<>>
    /\ nextReviewId = 1
    /\ req = [r \in Slots |-> Idle]
    /\ writes = 0
    /\ productVariants = <<>>
    /\ productCombinations = <<>>
    /\ nextVariantId = 1
    /\ nextCombinationId = 1
    /\ clock = 0

\* validateReplies: every reply has a non-blank string user_uuid, a
\* non-blank string comment and a string created_at
validateReplies(replies) ==
    \A i \in 1..Len(replies) :
        /\ IsString(replies[i], "user_uuid")
        /\ Trim(replies[i].user_uuid) # <<>>
        /\ IsString(replies[i], "comment")
        /\ Trim(replies[i].comment) # <<>>
        /\ IsString(replies[i], "created_at")

----------------------------------------------------------------------------
(* Request bodies the clients send *)

UuidInputs == {U1, U2, U9}

\* the review ids of the requests: ids handed out and ids never handed out
ReviewIdInputs == 1..MaxWrites

ReplyListInputs ==
    { <<>>,
      \* accepted by validateReplies, comment "ok"
      <<[user_uuid |-> U2, comment |-> Ok, created_at |-> Now]>>,
      \* no created_at
      <<[user_uuid |-> U1, comment |-> Hello]>>,
      \* blank user_uuid
      <<[user_uuid |-> <<" ">>, comment |-> Hello, created_at |-> Now]>> }

CreateBodies ==
    {[product_id |-> p, user_uuid |-> u, comments |-> c] :
        p \in {P1, P9}, u \in UuidInputs, c \in {GoodComment, PaddedComment}}
    \cup {[product_id |-> P1, user_uuid |-> u, comments |-> GoodComment, replies |-> rl] :
        u \in {U1, U2}, rl \in ReplyListInputs}
    \cup {[product_id |-> P1, user_uuid |-> <<>>, comments |-> GoodComment]}

ReactionBodies == {[user_uuid |-> u] : u \in UuidInputs \cup {<<>>}}

ReplyBodies ==
    {[user_uuid |-> u, comment |-> c] : u \in UuidInputs, c \in {Hello, PaddedHi}}
    \cup {[user_uuid |-> U1, comment |-> <<>>]}

UpdateBodies ==
    {[comments |-> c] : c \in {NiceComment, PaddedComment}}
    \cup {[replies |-> rl] : rl \in ReplyListInputs}
    \cup {[comments |-> NiceComment, replies |-> <<>>]}

\* bodies of bulkDeleteReviews: no review_ids, an empty list, a blank id,
\* one id, two ids, an id listed twice
BulkDeleteBodies ==
    {<<>>}
    \cup {[review_ids |-> l] : l \in {<<>>, <<1, BlankId>>, <<1>>, <<2>>, <<1, 2>>, <<2, 3>>, <<1, 1>>}}

\* the bodies of the requests that run concurrently: well-formed ones of
\* the two users
ConcurrentBodies ==
    [create |-> {[product_id |-> P1, user_uuid |-> u, comments |-> GoodComment] : u \in {U1, U2}},
     reaction |-> {[user_uuid |-> u] : u \in {U1, U2}},
     reply |-> {[user_uuid |-> U1, comment |-> Hello]},
     update |-> {[replies |-> <<>>], [comments |-> GoodComment]},
     bulk |-> {[review_ids |-> <<1, 2>>]}]

----------------------------------------------------------------------------
(* createProductReview *)

\* the handler without the 'already reviewed' lookup
createProductReviewStatusNoLookup(body) ==
    LET replies == IF "replies" \in DOMAIN body THEN body.replies ELSE <<>>
    IN  IF ~Truthy(body, "product_id") \/ ~Truthy(body, "user_uuid") \/ ~Truthy(body, "comments")
        THEN 400
        ELSE IF Len(Trim(body.comments)) < MinCommentsLength THEN 400
        ELSE IF Len(replies) > 0 /\ ~validateReplies(replies) THEN 400
        ELSE IF ~ProductExists(body.product_id) THEN 404
        ELSE IF ~UserExists(body.user_uuid) THEN 404
        ELSE 0

\* the handler up to the insert: validation and the three lookups; 0 when
\* it goes on to the insert
createProductReviewStatus(body) ==
    LET replies == IF "replies" \in DOMAIN body THEN body.replies ELSE <<>>
    IN  IF ~Truthy(body, "product_id") \/ ~Truthy(body, "user_uuid") \/ ~Truthy(body, "comments")
        THEN 400
        ELSE IF Len(Trim(body.comments)) < MinCommentsLength THEN 400
        ELSE IF Len(replies) > 0 /\ ~validateReplies(replies) THEN 400
        ELSE IF ~ProductExists(body.product_id) THEN 404
        ELSE IF ~UserExists(body.user_uuid) THEN 404
        ELSE IF Len(SelectReviewOf(body.product_id, body.user_uuid)) > 0 THEN 409
        ELSE 0

createProductReviewRead(r, body) ==
    /\ LET status == createProductReviewStatus(body)
       IN  Take(r, IF status = 0 THEN Pending("create", 0, body, <<>>)
                   ELSE Failed("create", status))
    /\ UNCHANGED <<catalog, products, userProfiles, productReviews, nextReviewId>>

\* the row createProductReview inserts
NewReview(reviewId, body) ==
    [review_id |-> reviewId,
     product_id |-> Trim(body.product_id),
     user_uuid |-> Trim(body.user_uuid),
     likes |-> 0,
     liked_by |-> <<>>,
     disliked_by |-> <<>>,
     dislikes |-> 0,
     comments |-> Trim(body.comments),
     replies |-> IF "replies" \in DOMAIN body THEN body.replies ELSE <<>>,
     created_at |-> Now,
     updated_at |-> Now]

\* insert(productReviews).values(...): the table's only unique column is
\* review_id, and uuidv4() is fresh; product_id and user_uuid reference
\* products and userProfiles, and a failed statement is a 500
createProductReviewInsert(r) ==
    /\ AtWrite(r, "create")
    /\ LET row == NewReview(nextReviewId, req[r].args)
       IN  IF ProductExists(row.product_id) /\ UserExists(row.user_uuid)
           THEN /\ productReviews' = Append(productReviews, row)
                /\ nextReviewId' = nextReviewId + 1
                /\ req' = [req EXCEPT ![r] = Done("create", nextReviewId, req[r].args, 201)]
           ELSE /\ UNCHANGED <<productReviews, nextReviewId>>
                /\ req' = [req EXCEPT ![r] = Failed("create", 500)]
    /\ UNCHANGED <<catalog, products, userProfiles, writes>>

----------------------------------------------------------------------------
(* The update every mutating handler ends with *)

\* update(...).set(data).where(eq(review_id, id)).returning(); the handler
\* then reads result[0], which throws when no row was updated (500)
UpdateWrite(r) ==
    /\ productReviews' = UpdateSet(req[r].id, req[r].data)
    /\ req' = [req EXCEPT ![r] =
                 Done(req[r].op, req[r].id, req[r].args,
                      IF RowsById(req[r].id) = {} THEN 500 ELSE 200)]
    /\ UNCHANGED <<catalog, products, userProfiles, nextReviewId, writes>>


----------------------------------------------------------------------------
(* likeReview, dislikeReview, removeLikeDislike *)

\* a reaction that writes the replies column too, as an empty list
ReactionDataWithReplies(newLikedBy, newDislikedBy) ==
    [likes |-> Len(newLikedBy),
     liked_by |-> newLikedBy,
     dislikes |-> Len(newDislikedBy),
     disliked_by |-> newDislikedBy,
     replies |-> <<>>,
     updated_at |-> Now]

\* .set({likes, liked_by, dislikes, disliked_by, updated_at})
ReactionData(newLikedBy, newDislikedBy) ==
    [likes |-> Len(newLikedBy),
     liked_by |-> newLikedBy,
     dislikes |-> Len(newDislikedBy),
     disliked_by |-> newDislikedBy,
     updated_at |-> Now]

\* like without taking the user out of disliked_by
likeReviewDataKeepsDislike(review, user_uuid) ==
    ReactionData(Append(review.liked_by, user_uuid), review.disliked_by)

\* like that forgets who else had liked
likeReviewDataOnlyUser(review, user_uuid) ==
    ReactionData(<<user_uuid>>, Without(review.disliked_by, user_uuid))

\* newDislikedBy = dislikedBy.filter(...); newLikedBy = [...likedBy, user_uuid]
likeReviewData(review, user_uuid) ==
    ReactionData(Append(review.liked_by, user_uuid), Without(review.disliked_by, user_uuid))

likeReviewRead(r, id, body) ==
    /\ LET existingReview == SelectReview(id)
           user_uuid == body.user_uuid
       IN  Take(r,
              IF ~Truthy(body, "user_uuid") THEN Failed("like", 400)
              ELSE IF Len(existingReview) = 0 THEN Failed("like", 404)
              ELSE IF ~UserExists(user_uuid) THEN Failed("like", 404)
              ELSE IF Includes(existingReview[1].liked_by, user_uuid)
                   THEN Failed("like", 409)
              ELSE Pending("like", id, body, likeReviewData(existingReview[1], user_uuid)))
    /\ UNCHANGED <<catalog, products, userProfiles, productReviews, nextReviewId>>

likeReviewWrite(r) ==
    /\ AtWrite(r, "like")
    /\ UpdateWrite(r)

\* dislike that counts up instead of taking the lengths
dislikeReviewDataCounting(review, user_uuid) ==
    [likes |-> review.likes,
     liked_by |-> Without(review.liked_by, user_uuid),
     dislikes |-> review.dislikes + 1,
     disliked_by |-> Append(review.disliked_by, user_uuid),
     updated_at |-> Now]

\* dislike without taking the user out of liked_by
dislikeReviewDataKeepsLike(review, user_uuid) ==
    ReactionData(review.liked_by, Append(review.disliked_by, user_uuid))

\* newLikedBy = likedBy.filter(...); newDislikedBy = [...dislikedBy, user_uuid]
dislikeReviewData(review, user_uuid) ==
    ReactionData(Without(review.liked_by, user_uuid), Append(review.disliked_by, user_uuid))

dislikeReviewRead(r, id, body) ==
    /\ LET existingReview == SelectReview(id)
           user_uuid == body.user_uuid
       IN  Take(r,
              IF ~Truthy(body, "user_uuid") THEN Failed("dislike", 400)
              ELSE IF Len(existingReview) = 0 THEN Failed("dislike", 404)
              ELSE IF ~UserExists(user_uuid) THEN Failed("dislike", 404)
              ELSE IF Includes(existingReview[1].disliked_by, user_uuid)
                   THEN Failed("dislike", 409)
              ELSE Pending("dislike", id, body, dislikeReviewData(existingReview[1], user_uuid)))
    /\ UNCHANGED <<catalog, products, userProfiles, productReviews, nextReviewId>>

dislikeReviewWrite(r) ==
    /\ AtWrite(r, "dislike")
    /\ UpdateWrite(r)

\* removal that only looks at liked_by
removeLikeDislikeDataLikesOnly(review, user_uuid) ==
    ReactionData(Without(review.liked_by, user_uuid), review.disliked_by)

\* the user filtered out of both arrays
removeLikeDislikeData(review, user_uuid) ==
    ReactionData(Without(review.liked_by, user_uuid), Without(review.disliked_by, user_uuid))

\* no lookup in userProfiles here
removeLikeDislikeRead(r, id, body) ==
    /\ LET existingReview == SelectReview(id)
           user_uuid == body.user_uuid
       IN  Take(r,
              IF ~Truthy(body, "user_uuid") THEN Failed("remove", 400)
              ELSE IF Len(existingReview) = 0 THEN Failed("remove", 404)
              ELSE IF ~(Includes(existingReview[1].liked_by, user_uuid)
                        \/ Includes(existingReview[1].disliked_by, user_uuid))
                   THEN Failed("remove", 400)
              ELSE Pending("remove", id, body, removeLikeDislikeData(existingReview[1], user_uuid)))
    /\ UNCHANGED <<catalog, products, userProfiles, productReviews, nextReviewId>>

removeLikeDislikeWrite(r) ==
    /\ AtWrite(r, "remove")
    /\ UpdateWrite(r)

----------------------------------------------------------------------------
(* addReplyToReview *)

addReplyToReviewRead(r, id, body) ==
    /\ LET existingReview == SelectReview(id)
           newReply == [user_uuid |-> Trim(body.user_uuid),
                        comment |-> Trim(body.comment),
                        created_at |-> Now]
       IN  Take(r,
                IF ~Truthy(body, "user_uuid") \/ ~Truthy(body, "comment")
                THEN Failed("reply", 400)
                ELSE IF Len(Trim(body.comment)) < MinReplyLength THEN Failed("reply", 400)
                ELSE IF Len(existingReview) = 0 THEN Failed("reply", 404)
                ELSE IF ~UserExists(body.user_uuid) THEN Failed("reply", 404)
                ELSE Pending("reply", id, body,
                             [replies |-> Append(existingReview[1].replies, newReply),
                              updated_at |-> Now]))
    /\ UNCHANGED <<catalog, products, userProfiles, productReviews, nextReviewId>>

addReplyToReviewWrite(r) ==
    /\ AtWrite(r, "reply")
    /\ UpdateWrite(r)

----------------------------------------------------------------------------
(* updateProductReview *)

\* updateData: updated_at, and comments / replies when the body has them
updateData(body) ==
    [f \in {"updated_at"}
           \cup (IF Truthy(body, "comments") THEN {"comments"} ELSE {})
           \cup (IF "replies" \in DOMAIN body THEN {"replies"} ELSE {}) |->
        IF f = "comments" THEN Trim(body.comments)
        ELSE IF f = "replies" THEN body.replies
        ELSE Now]

updateProductReviewRead(r, id, body) ==
    /\ LET existingReview == SelectReview(id)
       IN  Take(r,
              IF Len(existingReview) = 0 THEN Failed("update", 404)
              ELSE IF Truthy(body, "comments") /\ Len(Trim(body.comments)) < MinCommentsLength
                   THEN Failed("update", 400)
              ELSE IF "replies" \in DOMAIN body /\ ~validateReplies(body.replies)
                   THEN Failed("update", 400)
              ELSE Pending("update", id, body, updateData(body)))
    /\ UNCHANGED <<catalog, products, userProfiles, productReviews, nextReviewId>>

updateProductReviewWrite(r) ==
    /\ AtWrite(r, "update")
    /\ UpdateWrite(r)

----------------------------------------------------------------------------
(* deleteProductReview *)

deleteProductReviewRead(r, id) ==
    /\ LET existingReview == SelectReview(id)
       IN  Take(r,
              IF Len(existingReview) = 0 THEN Failed("delete", 404)
              ELSE Pending("delete", id, <<>>, <<>>))
    /\ UNCHANGED <<catalog, products, userProfiles, productReviews, nextReviewId>>

\* the delete reports success whatever the number of rows it removed
deleteProductReviewWrite(r) ==
    /\ AtWrite(r, "delete")
    /\ productReviews' = DeleteWhereId(req[r].id)
    /\ req' = [req EXCEPT ![r] = Done("delete", req[r].id, <<>>, 200)]
    /\ UNCHANGED <<catalog, products, userProfiles, nextReviewId, writes>>

----------------------------------------------------------------------------
(* bulkDeleteReviews *)

\* review_ids.filter(id => !existingIds.includes(id))
missingIds(review_ids) == SelectSeq(review_ids, LAMBDA id : RowsById(id) = {})

\* the response that names the missing ids
NotFoundIds(op, missing) == [pc |-> "done", op |-> op, status |-> 404, missing |-> missing]

\* the handler that goes on to the delete when some listed review exists
bulkDeleteReviewsStatusAnyExists(body) ==
    IF "review_ids" \notin DOMAIN body \/ Len(body.review_ids) = 0 THEN 400
    ELSE IF \E i \in 1..Len(body.review_ids) : body.review_ids[i] = BlankId THEN 400
    ELSE IF Len(missingIds(body.review_ids)) = Len(body.review_ids) THEN 404
    ELSE 0

\* the handler up to the delete: 0 when it goes on to the delete
bulkDeleteReviewsStatus(body) ==
    IF "review_ids" \notin DOMAIN body \/ Len(body.review_ids) = 0 THEN 400
    ELSE IF \E i \in 1..Len(body.review_ids) : body.review_ids[i] = BlankId THEN 400
    ELSE IF Len(missingIds(body.review_ids)) > 0 THEN 404
    ELSE 0

bulkDeleteReviewsRead(r, body) ==
    /\ LET status == bulkDeleteReviewsStatus(body)
       IN  Take(r, IF status = 0 THEN Pending("bulkDelete", 0, body, <<>>)
                   ELSE IF status = 404
                        THEN NotFoundIds("bulkDelete", missingIds(body.review_ids))
                   ELSE Failed("bulkDelete", status))
    /\ UNCHANGED <<catalog, products, userProfiles, productReviews, nextReviewId>>

\* delete(productReviews).where(inArray(review_id, review_ids)); the
\* response counts the ids of the request
bulkDeleteReviewsWrite(r) ==
    /\ AtWrite(r, "bulkDelete")
    /\ productReviews' = SelectSeq(productReviews,
                             LAMBDA row : ~Includes(req[r].args.review_ids, row.review_id))
    /\ req' = [req EXCEPT ![r] =
                 [pc |-> "done", op |-> "bulkDelete", status |-> 200,
                  review_ids |-> req[r].args.review_ids,
                  deletedCount |-> Len(req[r].args.review_ids)]]
    /\ UNCHANGED <<catalog, products, userProfiles, nextReviewId, writes>>

----------------------------------------------------------------------------
(* Product combinations: values and table *)

\* "Bundle"
ComboName == <<"B", "u", "n", "d", "l", "e">>

\* the response of a catalog request on the row `id`
Answer(op, id, status) == [pc |-> "done", op |-> op, id |-> id, status |-> status]

\* validateChildProducts without Number.isInteger
validateChildProductsAnyNumber(childProducts) ==
    /\ Len(childProducts) > 0
    /\ \A i \in 1..Len(childProducts) :
           /\ IsString(childProducts[i], "product_id")
           /\ Trim(childProducts[i].product_id) # <<>>
           /\ "quantity" \in DOMAIN childProducts[i]
           /\ childProducts[i].quantity.num > 0

\* validateChildProducts: a non-empty array whose items have a non-blank
\* string product_id and a number quantity that is > 0 and an integer
validateChildProducts(childProducts) ==
    /\ Len(childProducts) > 0
    /\ \A i \in 1..Len(childProducts) :
           /\ IsString(childProducts[i], "product_id")
           /\ Trim(childProducts[i].product_id) # <<>>
           /\ "quantity" \in DOMAIN childProducts[i]
           /\ childProducts[i].quantity.num > 0
           /\ childProducts[i].quantity.num % childProducts[i].quantity.den = 0

\* child_products.map(cp => cp.product_id)
childProductIds(childProducts) ==
    [i \in 1..Len(childProducts) |-> childProducts[i].product_id]

\* ids.filter(id => !existingIds.includes(id))
missingProducts(ids) == SelectSeq(ids, LAMBDA id : ~ProductExists(id))

\* select().from(productCombinations).where(eq(combination_id, id)).limit(1)
SelectCombination(id) == SelectSeq(productCombinations, LAMBDA row : row.combination_id = id)

\* the row that create and bulkCreate insert for one combination
NewCombination(combinationId, combo) ==
    [combination_id |-> combinationId,
     parent_product_id |-> Trim(combo.parent_product_id),
     combination_name |-> Trim(combo.combination_name),
     description |-> IF Truthy(combo, "description") /\ Trim(combo.description) # <<>>
                     THEN Trim(combo.description) ELSE Null,
     child_products |-> combo.child_products,
     created_at |-> Now,
     updated_at |-> Now]

\* the first `n` entries of `combos` as rows with ids from `firstId` on
NewCombinations(firstId, combos) ==
    [i \in 1..Len(combos) |-> NewCombination(firstId + i - 1, combos[i])]

\* the foreign key of productCombinations.parent_product_id holds for `rows`
ParentsExist(rows) == \A i \in 1..Len(rows) : ProductExists(rows[i].parent_product_id)

\* the review, variant and combination state a combination handler's
\* validation and lookups leave alone
unread == <<products, userProfiles, productReviews, nextReviewId, productVariants,
            productCombinations, nextVariantId, nextCombinationId, clock>>

----------------------------------------------------------------------------
(* createProductCombination *)

\* the handler without the lookup of the child products
createProductCombinationStatusNoChildLookup(body) ==
    IF ~Truthy(body, "parent_product_id") \/ ~Truthy(body, "combination_name")
       \/ "child_products" \notin DOMAIN body
    THEN 400
    ELSE IF ~validateChildProducts(body.child_products) THEN 400
    ELSE IF ~ProductExists(body.parent_product_id) THEN 404
    ELSE 0

\* the handler up to the insert: 0 when it goes on to the insert
createProductCombinationStatus(body) ==
    IF ~Truthy(body, "parent_product_id") \/ ~Truthy(body, "combination_name")
       \/ "child_products" \notin DOMAIN body
    THEN 400
    ELSE IF ~validateChildProducts(body.child_products) THEN 400
    ELSE IF ~ProductExists(body.parent_product_id) THEN 404
    ELSE IF Len(missingProducts(childProductIds(body.child_products))) > 0 THEN 404
    ELSE 0

createProductCombinationRead(r, body) ==
    /\ LET status == createProductCombinationStatus(body)
       IN  Take(r, IF status = 0 THEN Pending("createCombination", 0, body, <<>>)
                   ELSE IF status = 404 /\ ProductExists(body.parent_product_id)
                        THEN NotFoundIds("createCombination",
                                         missingProducts(childProductIds(body.child_products)))
                   ELSE Failed("createCombination", status))
    /\ UNCHANGED unread

\* insert(productCombinations).values(...).returning(): one row under a
\* fresh uuid; the statement fails (500) when the trimmed parent id is not
\* a product
createProductCombinationInsert(r) ==
    /\ AtWrite(r, "createCombination")
    /\ LET row == NewCombination(nextCombinationId, req[r].args)
       IN  IF ParentsExist(<<row>>)
           THEN /\ productCombinations' = Append(productCombinations, row)
                /\ nextCombinationId' = nextCombinationId + 1
                /\ req' = [req EXCEPT ![r] = Answer("createCombination", nextCombinationId, 201)]
           ELSE /\ UNCHANGED <<productCombinations, nextCombinationId>>
                /\ req' = [req EXCEPT ![r] = Failed("createCombination", 500)]
    /\ UNCHANGED <<products, userProfiles, productReviews, nextReviewId, writes,
                   productVariants, nextVariantId, clock>>

----------------------------------------------------------------------------
(* bulkCreateProductCombinations *)

\* the loop over the entries: each has a parent id, a name and child
\* products that validateChildProducts accepts
ValidCombinations(combinations) ==
    \A i \in 1..Len(combinations) :
        /\ Truthy(combinations[i], "parent_product_id")
        /\ Truthy(combinations[i], "combination_name")
        /\ "child_products" \in DOMAIN combinations[i]
        /\ validateChildProducts(combinations[i].child_products)

\* combinations.map(c => c.parent_product_id)
parentProductIds(combinations) ==
    [i \in 1..Len(combinations) |-> combinations[i].parent_product_id]

\* combinations.flatMap(c => c.child_products.map(cp => cp.product_id))
RECURSIVE allChildProductIds(_)
allChildProductIds(combinations) ==
    IF combinations = <<>> THEN <<>>
    ELSE childProductIds(Head(combinations).child_products)
             \o allChildProductIds(Tail(combinations))

\* the handler that only looks up the products of its first entry
bulkCreateProductCombinationsStatusFirstOnly(body) ==
    IF "combinations" \notin DOMAIN body \/ Len(body.combinations) = 0 THEN 400
    ELSE IF ~ValidCombinations(body.combinations) THEN 400
    ELSE IF Len(missingProducts(parentProductIds(<<body.combinations[1]>>))) > 0 THEN 404
    ELSE IF Len(missingProducts(allChildProductIds(<<body.combinations[1]>>))) > 0 THEN 404
    ELSE 0

\* the handler up to the insert: 0 when it goes on to the insert
bulkCreateProductCombinationsStatus(body) ==
    IF "combinations" \notin DOMAIN body \/ Len(body.combinations) = 0 THEN 400
    ELSE IF ~ValidCombinations(body.combinations) THEN 400
    ELSE IF Len(missingProducts(parentProductIds(body.combinations))) > 0 THEN 404
    ELSE IF Len(missingProducts(allChildProductIds(body.combinations))) > 0 THEN 404
    ELSE 0

bulkCreateProductCombinationsRead(r, body) ==
    /\ LET status == bulkCreateProductCombinationsStatus(body)
       IN  Take(r, IF status = 0 THEN Pending("bulkCreate", 0, body, <<>>)
                   ELSE Failed("bulkCreate", status))
    /\ UNCHANGED unread

\* insert(productCombinations).values(insertData).returning(): one
\* statement for all the rows, each under a fresh uuid
bulkCreateProductCombinationsInsert(r) ==
    /\ AtWrite(r, "bulkCreate")
    /\ LET rows == NewCombinations(nextCombinationId, req[r].args.combinations)
       IN  IF ParentsExist(rows)
           THEN /\ productCombinations' = productCombinations \o rows
                /\ nextCombinationId' = nextCombinationId + Len(rows)
                /\ req' = [req EXCEPT ![r] =
                             [pc |-> "done", op |-> "bulkCreate", status |-> 201,
                              count |-> Len(rows)]]
           ELSE /\ UNCHANGED <<productCombinations, nextCombinationId>>
                /\ req' = [req EXCEPT ![r] = Failed("bulkCreate", 500)]
    /\ UNCHANGED <<products, userProfiles, productReviews, nextReviewId, writes,
                   productVariants, nextVariantId, clock>>

----------------------------------------------------------------------------
(* updateProductCombination, deleteProductCombination *)

\* updateData: updated_at, and the fields the body has
combinationUpdateData(body) ==
    [f \in {"updated_at"}
           \cup (IF Truthy(body, "parent_product_id") THEN {"parent_product_id"} ELSE {})
           \cup (IF Truthy(body, "combination_name") THEN {"combination_name"} ELSE {})
           \cup (IF "child_products" \in DOMAIN body THEN {"child_products"} ELSE {}) |->
        IF f = "parent_product_id" THEN Trim(body.parent_product_id)
        ELSE IF f = "combination_name" THEN Trim(body.combination_name)
        ELSE IF f = "child_products" THEN body.child_products
        ELSE Now]

\* update(productCombinations).set(data).where(eq(combination_id, id))
UpdateCombination(id, data) ==
    [i \in 1..Len(productCombinations) |->
        IF productCombinations[i].combination_id = id
        THEN [f \in DOMAIN productCombinations[i] |->
                 IF f \in DOMAIN data THEN data[f] ELSE productCombinations[i][f]]
        ELSE productCombinations[i]]

\* the handler up to the update: 0 when it goes on to the update
updateProductCombinationStatus(id, body) ==
    IF Len(SelectCombination(id)) = 0 THEN 404
    ELSE IF "child_products" \in DOMAIN body /\ ~validateChildProducts(body.child_products)
         THEN 400
    ELSE IF Truthy(body, "parent_product_id") /\ ~ProductExists(body.parent_product_id)
         THEN 404
    ELSE IF "child_products" \in DOMAIN body
            /\ Len(missingProducts(childProductIds(body.child_products))) > 0
         THEN 404
    ELSE 0

updateProductCombinationRead(r, id, body) ==
    /\ LET status == updateProductCombinationStatus(id, body)
       IN  Take(r, IF status = 0
                   THEN Pending("updateCombination", id, body, combinationUpdateData(body))
                   ELSE Failed("updateCombination", status))
    /\ UNCHANGED unread

\* the update, then result[0].child_products, which throws when no row was
\* updated (500); the statement fails (500) when the new parent is not a
\* product
updateProductCombinationWrite(r) ==
    /\ AtWrite(r, "updateCombination")
    /\ LET rows == UpdateCombination(req[r].id, req[r].data)
       IN  IF Len(SelectCombination(req[r].id)) > 0 /\ ParentsExist(rows)
           THEN /\ productCombinations' = rows
                /\ req' = [req EXCEPT ![r] = Answer("updateCombination", req[r].id, 200)]
           ELSE /\ UNCHANGED productCombinations
                /\ req' = [req EXCEPT ![r] = Failed("updateCombination", 500)]
    /\ UNCHANGED <<products, userProfiles, productReviews, nextReviewId, writes,
                   productVariants, nextVariantId, nextCombinationId, clock>>

deleteProductCombinationRead(r, id) ==
    /\ Take(r, IF Len(SelectCombination(id)) = 0 THEN Failed("deleteCombination", 404)
               ELSE Pending("deleteCombination", id, <<>>, <<>>))
    /\ UNCHANGED unread

deleteProductCombinationWrite(r) ==
    /\ AtWrite(r, "deleteCombination")
    /\ productCombinations' =
           SelectSeq(productCombinations, LAMBDA row : row.combination_id # req[r].id)
    /\ req' = [req EXCEPT ![r] = Answer("deleteCombination", req[r].id, 200)]
    /\ UNCHANGED <<products, userProfiles, productReviews, nextReviewId, writes,
                   productVariants, nextVariantId, nextCombinationId, clock>>

----------------------------------------------------------------------------
(* deleteProduct *)

\* a handler that is one storage statement answers in one step
Serve(r, next) ==
    /\ req[r] = Idle
    /\ writes < MaxWrites
    /\ req' = [req EXCEPT ![r] = next]
    /\ writes' = writes + 1

\* 'Product ID is required'
deleteProductNoId(r) ==
    /\ Take(r, Failed("deleteProduct", 400))
    /\ UNCHANGED unread

\* the delete that leaves the reviews of the product in place
deleteProductKeepsReviews(r, productId) ==
    /\ productId # <<>>
    /\ Serve(r, [pc |-> "done", op |-> "deleteProduct", product_id |-> productId,
                  status |-> 200])
    /\ products' = SelectSeq(products, LAMBDA row : row.product_id # productId)
    /\ productVariants' =
           SelectSeq(productVariants, LAMBDA row : row.parent_product_id # productId)
    /\ productCombinations' =
           SelectSeq(productCombinations, LAMBDA row : row.parent_product_id # productId)
    /\ UNCHANGED <<productReviews, userProfiles, nextReviewId, nextVariantId,
                   nextCombinationId, clock>>

\* delete(products).where(eq(product_id, productId)).run(); the variants
\* and combinations of the product and its reviews go with it (on delete
\* cascade); the answer is success whatever the number of rows
deleteProduct(r, productId) ==
    /\ productId # <<>>
    /\ Serve(r, [pc |-> "done", op |-> "deleteProduct", product_id |-> productId,
                  status |-> 200])
    /\ products' = SelectSeq(products, LAMBDA row : row.product_id # productId)
    /\ productVariants' =
           SelectSeq(productVariants, LAMBDA row : row.parent_product_id # productId)
    /\ productCombinations' =
           SelectSeq(productCombinations, LAMBDA row : row.parent_product_id # productId)
    /\ productReviews' = SelectSeq(productReviews, LAMBDA row : row.product_id # productId)
    /\ UNCHANGED <<userProfiles, nextReviewId, nextVariantId, nextCombinationId, clock>>

----------------------------------------------------------------------------
(* Product variants: numbers, slugs and table *)

RECURSIVE GCD(_, _)
GCD(a, b) == IF b = 0 THEN a ELSE GCD(b, a % b)

\* the fraction in lowest terms, so that equal numbers are equal values
Norm(num, den) ==
    LET g == GCD(IF num < 0 THEN -num ELSE num, den)
    IN  Q(num \div g, den \div g)

\* a * b, a / b and a - b on numbers
Times(a, b) == Norm(a.num * b.num, a.den * b.den)
Over(a, b) == Norm(a.num * b.den, a.den * b.num)
Minus(a, b) == Norm(a.num * b.den - b.num * a.den, a.den * b.den)

DigitValue(c) ==
    CASE c = "0" -> 0 [] c = "1" -> 1 [] c = "2" -> 2 [] c = "3" -> 3 [] c = "4" -> 4
      [] c = "5" -> 5 [] c = "6" -> 6 [] c = "7" -> 7 [] c = "8" -> 8 [] c = "9" -> 9

\* the number a string of digits reads as
RECURSIVE DigitsValue(_)
DigitsValue(text) ==
    IF text = <<>> THEN 0
    ELSE 10 * DigitsValue(SubSeq(text, 1, Len(text) - 1)) + DigitValue(text[Len(text)])

\* parseFloat of a number or of a string of digits
parseFloat(v) == IF v.type = "number" THEN v ELSE Q(DigitsValue(v.text), 1)

\* parseInt of a number >= 0 or of a string of digits
parseInt(v) == IF v.type = "number" THEN v.num \div v.den ELSE DigitsValue(v.text)

\* truthiness of a body field that holds a number or a string
TruthyValue(body, f) ==
    /\ f \in DOMAIN body
    /\ body[f].type = "number" => body[f].num # 0
    /\ body[f].type = "string" => body[f].text # <<>>

\* price - (price * discount_percent / 100)
DiscountPrice(price, discount_percent) ==
    Minus(price, Over(Times(price, discount_percent), Q(100, 1)))

LowerOf(c) == CASE c = "S" -> "s" [] c = "X" -> "x" [] c = "L" -> "l" [] OTHER -> c

\* String.prototype.toLowerCase
toLowerCase(text) == [i \in 1..Len(text) |-> LowerOf(text[i])]

\* replace(/\s+/g, '-'): every run of spaces becomes one hyphen
RECURSIVE ReplaceSpaces(_)
ReplaceSpaces(text) ==
    IF text = <<>> THEN <<>>
    ELSE IF Head(text) = " " THEN <<"-">> \o ReplaceSpaces(TrimStart(text))
    ELSE <<Head(text)>> \o ReplaceSpaces(Tail(text))

\* `${baseSlug}-${variant_name.toLowerCase().replace(/\s+/g, '-')}`
variantSlug(baseSlug, variant_name) ==
    baseSlug \o <<"-">> \o ReplaceSpaces(toLowerCase(variant_name))

\* `${variantSlug}-${timestamp}`
TimestampSlug(slug, timestamp) == slug \o <<"-", ToString(timestamp)>>

\* select().from(products).where(eq(product_id, id)).get()
SelectProduct(id) == SelectSeq(products, LAMBDA row : row.product_id = id)

\* select().from(products).where(eq(slug, slug)).get(): the first such row
SelectProductBySlug(slug) == SelectSeq(products, LAMBDA row : row.slug = slug)

\* select().from(productVariants).where(eq(slug, slug)).get()
SelectVariantBySlug(slug) == SelectSeq(productVariants, LAMBDA row : row.slug = slug)

\* the variants of a product that are active, in row order
ActiveVariantsOf(productId) ==
    SelectSeq(productVariants,
              LAMBDA row : row.parent_product_id = productId /\ row.is_active)

\* the rows with this variant_id
SelectVariant(id) == SelectSeq(productVariants, LAMBDA row : row.variant_id = id)

\* the answer with success: false and no status code (HTTP 200)
Refused(op) == [pc |-> "done", op |-> op, status |-> 200, success |-> FALSE]

----------------------------------------------------------------------------
(* createProduct *)

\* the row createProduct inserts: raiting ?? 0, discount_percent ?? null,
\* variantState ?? false, featured ?? false
NewProduct(body) ==
    [product_id |-> body.product_id,
     slug |-> body.slug,
     variantState |-> IF "variantState" \in DOMAIN body THEN body.variantState ELSE FALSE,
     vendorID |-> body.vendorID,
     category |-> body.category,
     featured |-> IF "featured" \in DOMAIN body THEN body.featured ELSE FALSE,
     price |-> body.price,
     raiting |-> IF "raiting" \in DOMAIN body THEN body.raiting ELSE Q(0, 1),
     discountPercent |-> IF "discount_percent" \in DOMAIN body
                         THEN body.discount_percent ELSE Null]

\* insert(products).values(...): the bodies of the model carry the
\* required fields that no handler selects on (title, description, brand
\* ...); product_id is unique, slug is not
createProduct(r, body) ==
    IF ~Truthy(body, "product_id") \/ ~Truthy(body, "slug") \/ ~Truthy(body, "category")
       \/ ~TruthyValue(body, "price") \/ ~Truthy(body, "vendorID")
    THEN /\ Take(r, Refused("createProduct"))
         /\ UNCHANGED unread
    ELSE /\ Serve(r, [pc |-> "done", op |-> "createProduct", product_id |-> body.product_id,
                      status |-> IF ProductExists(body.product_id) THEN 500 ELSE 200])
         /\ products' =
                IF ProductExists(body.product_id) THEN products
                ELSE Append(products, NewProduct(body))
         /\ UNCHANGED <<userProfiles, productReviews, nextReviewId, productVariants,
                        productCombinations, nextVariantId, nextCombinationId, clock>>

----------------------------------------------------------------------------
(* createProductVariant *)

\* discount_percent ? parseFloat(discount_percent) : null, and
\* discount_percent ? price - price * discount_percent / 100 : null
variantDiscount(body) ==
    IF TruthyValue(body, "discount_percent")
    THEN [discount_percent |-> parseFloat(body.discount_percent),
          discount_price |-> DiscountPrice(parseFloat(body.price),
                                           parseFloat(body.discount_percent))]
    ELSE [discount_percent |-> Null, discount_price |-> Null]

\* variantData
variantData(variant_id, finalSlug, body) ==
    [variant_id |-> variant_id,
     parent_product_id |-> body.parent_product_id,
     slug |-> finalSlug,
     variant_name |-> body.variant_name,
     variant_type |-> body.variant_type,
     price |-> parseFloat(body.price),
     quantity |-> parseInt(body.quantity),
     discount_percent |-> variantDiscount(body).discount_percent,
     discount_price |-> variantDiscount(body).discount_price,
     is_active |-> TRUE,
     updated_at |-> Now]

\* the handler up to the slug: 200 for the refusal without a status code,
\* 0 when it goes on
createProductVariantStatus(body) ==
    IF ~Truthy(body, "parent_product_id") \/ ~Truthy(body, "variant_name")
       \/ ~Truthy(body, "variant_type") \/ ~TruthyValue(body, "price")
       \/ "quantity" \notin DOMAIN body
    THEN 200
    ELSE IF Len(SelectProduct(body.parent_product_id)) = 0 THEN 404
    ELSE 0

\* validation, the lookup of the parent, the slug and the lookup of the
\* slug; Date.now() gives the suffix of a taken slug and never goes back
createProductVariantRead(r, body) ==
    LET status == createProductVariantStatus(body)
    IN  IF status # 0
        THEN /\ Take(r, IF status = 200 THEN Refused("createVariant")
                        ELSE Failed("createVariant", status))
             /\ UNCHANGED unread
        ELSE LET slug == variantSlug(SelectProduct(body.parent_product_id)[1].slug,
                                     body.variant_name)
             IN  \E timestamp \in {clock, clock + 1} :
                     /\ Take(r, Pending("createVariant", nextVariantId, body,
                                        variantData(nextVariantId,
                                                    IF Len(SelectVariantBySlug(slug)) > 0
                                                    THEN TimestampSlug(slug, timestamp)
                                                    ELSE slug,
                                                    body)))
                     /\ nextVariantId' = nextVariantId + 1
                     /\ clock' = IF Len(SelectVariantBySlug(slug)) > 0 THEN timestamp ELSE clock
                     /\ UNCHANGED <<products, userProfiles, productReviews, nextReviewId,
                                    productVariants, productCombinations, nextCombinationId>>

\* insert(productVariants).values(variantData): slug is unique and
\* parent_product_id references products; a failed statement is a 500
createProductVariantInsert(r) ==
    /\ AtWrite(r, "createVariant")
    /\ IF Len(SelectVariantBySlug(req[r].data.slug)) = 0
          /\ ProductExists(req[r].data.parent_product_id)
       THEN /\ productVariants' = Append(productVariants, req[r].data)
            /\ req' = [req EXCEPT ![r] = Answer("createVariant", req[r].id, 200)]
       ELSE /\ UNCHANGED productVariants
            /\ req' = [req EXCEPT ![r] = Answer("createVariant", req[r].id, 500)]
    /\ UNCHANGED <<products, userProfiles, productReviews, nextReviewId, writes,
                   productCombinations, nextVariantId, nextCombinationId, clock>>

----------------------------------------------------------------------------
(* updateProductVariant, deleteProductVariant *)

\* fieldsToUpdate, with discount_price when the body has a discount_percent
\* and a price, and updated_at
variantUpdateData(fieldsToUpdate) ==
    [f \in DOMAIN fieldsToUpdate \cup {"updated_at"}
           \cup (IF TruthyValue(fieldsToUpdate, "discount_percent")
                    /\ TruthyValue(fieldsToUpdate, "price")
                 THEN {"discount_price"} ELSE {}) |->
        IF f = "updated_at" THEN Now
        ELSE IF f = "discount_price" /\ TruthyValue(fieldsToUpdate, "discount_percent")
                /\ TruthyValue(fieldsToUpdate, "price")
             THEN DiscountPrice(fieldsToUpdate.price, fieldsToUpdate.discount_percent)
        ELSE fieldsToUpdate[f]]

\* update(productVariants).set(data).where(eq(variant_id, id))
UpdateVariant(id, data) ==
    [i \in 1..Len(productVariants) |->
        IF productVariants[i].variant_id = id
        THEN [f \in DOMAIN productVariants[i] |->
                 IF f \in DOMAIN data THEN data[f] ELSE productVariants[i][f]]
        ELSE productVariants[i]]

\* 'Variant ID and at least one field to update are required.'
updateProductVariantNoFields(r) ==
    /\ Take(r, Failed("updateVariant", 400))
    /\ UNCHANGED unread

\* one UPDATE; rowsAffected === 0 is answered 404
updateProductVariant(r, id, fieldsToUpdate) ==
    /\ DOMAIN fieldsToUpdate # {}
    /\ Serve(r, Answer("updateVariant", id, IF Len(SelectVariant(id)) = 0 THEN 404 ELSE 200))
    /\ productVariants' = UpdateVariant(id, variantUpdateData(fieldsToUpdate))
    /\ UNCHANGED <<products, userProfiles, productReviews, nextReviewId,
                   productCombinations, nextVariantId, nextCombinationId, clock>>

\* one DELETE; the answer is success whatever the number of rows
deleteProductVariant(r, id) ==
    /\ Serve(r, Answer("deleteVariant", id, 200))
    /\ productVariants' = SelectSeq(productVariants, LAMBDA row : row.variant_id # id)
    /\ UNCHANGED <<products, userProfiles, productReviews, nextReviewId,
                   productCombinations, nextVariantId, nextCombinationId, clock>>

----------------------------------------------------------------------------
(* getProductBySlug *)

\* the answer that takes the variants of the product whatever is_active
getProductBySlugAllVariants(slug) ==
    LET product == SelectProductBySlug(slug)
        variant == SelectSeq(SelectVariantBySlug(slug), LAMBDA row : row.is_active)
        parentProduct == IF Len(variant) > 0
                         THEN SelectProduct(variant[1].parent_product_id) ELSE <<>>
        allOf(id) == SelectSeq(productVariants, LAMBDA row : row.parent_product_id = id)
    IN  IF slug = <<>> THEN [status |-> 400]
        ELSE IF Len(product) > 0
        THEN [status |-> 200, product |-> product[1],
              variants |-> allOf(product[1].product_id),
              has_variants |-> Len(allOf(product[1].product_id)) > 0]
        ELSE IF Len(variant) > 0 /\ Len(parentProduct) > 0
        THEN [status |-> 200, product |-> parentProduct[1],
              variants |-> allOf(parentProduct[1].product_id),
              has_variants |-> TRUE,
              selected_variant |-> variant[1],
              current_variant_slug |-> slug]
        ELSE [status |-> 404]

\* the answer: the product with this slug and its active variants, or the
\* parent of the active variant with this slug, its active variants and
\* the variant itself, or 404; `variants` is the list, which the answer
\* gives as null when the product path finds it empty
getProductBySlugData(slug) ==
    LET product == SelectProductBySlug(slug)
        variant == SelectSeq(SelectVariantBySlug(slug), LAMBDA row : row.is_active)
        parentProduct == IF Len(variant) > 0
                         THEN SelectProduct(variant[1].parent_product_id) ELSE <<>>
    IN  IF slug = <<>> THEN [status |-> 400]
        ELSE IF Len(product) > 0
        THEN [status |-> 200, product |-> product[1],
              variants |-> ActiveVariantsOf(product[1].product_id),
              has_variants |-> Len(ActiveVariantsOf(product[1].product_id)) > 0]
        ELSE IF Len(variant) > 0 /\ Len(parentProduct) > 0
        THEN [status |-> 200, product |-> parentProduct[1],
              variants |-> ActiveVariantsOf(parentProduct[1].product_id),
              has_variants |-> TRUE,
              selected_variant |-> variant[1],
              current_variant_slug |-> slug]
        ELSE [status |-> 404]

getProductBySlug(r, slug) ==
    /\ Take(r, [pc |-> "done", op |-> "getBySlug", slug |-> slug,
                status |-> getProductBySlugData(slug).status,
                data |-> getProductBySlugData(slug)])
    /\ UNCHANGED unread

----------------------------------------------------------------------------
(* updateProduct *)

\* update(products).set(fieldsToUpdate).where(eq(product_id, id))
UpdateProduct(id, data) ==
    [i \in 1..Len(products) |->
        IF products[i].product_id = id
        THEN [f \in DOMAIN products[i] |->
                 IF f \in DOMAIN data THEN data[f] ELSE products[i][f]]
        ELSE products[i]]

\* 'Product ID in URL param and at least one field in body are required.'
updateProductNoFields(r) ==
    /\ Take(r, Failed("updateProduct", 400))
    /\ UNCHANGED unread

\* one UPDATE of the columns of the body, slug included; rowsAffected === 0
\* is answered 404
updateProduct(r, productId, fieldsToUpdate) ==
    /\ DOMAIN fieldsToUpdate # {}
    /\ Serve(r, [pc |-> "done", op |-> "updateProduct", product_id |-> productId,
                  status |-> IF Len(SelectProduct(productId)) = 0 THEN 404 ELSE 200])
    /\ products' = UpdateProduct(productId, fieldsToUpdate)
    /\ UNCHANGED <<userProfiles, productReviews, nextReviewId, productVariants,
                   productCombinations, nextVariantId, nextCombinationId, clock>>

----------------------------------------------------------------------------
(* The product queries *)

\* gte(column, value) and lte(column, value); a null column matches nothing
gte(column, value) ==
    column # Null /\ column.num * value.den >= value.num * column.den
lte(column, value) ==
    column # Null /\ column.num * value.den <= value.num * column.den

\* a + b on numbers
Plus(a, b) == Norm(a.num * b.den + b.num * a.den, a.den * b.den)

\* param ? parseFloat(param) : NaN, for a parameter of digits: the number,
\* or <<>> for NaN
parseParam(param) == IF param = <<>> THEN <<>> ELSE <<parseFloat(S(param))>>

\* the orders of the row numbers in `left` in which the column never goes up
RECURSIVE DescOrders(_, _)
DescOrders(keys, left) ==
    IF left = {} THEN {<<>>}
    ELSE UNION {{<<i>> \o rest : rest \in DescOrders(keys, left \ {i})} :
                   i \in {j \in left : \A k \in left : gte(keys[j], keys[k])}}

\* the orders of the row numbers in `left` in which the column never goes down
RECURSIVE AscOrders(_, _)
AscOrders(keys, left) ==
    IF left = {} THEN {<<>>}
    ELSE UNION {{<<i>> \o rest : rest \in AscOrders(keys, left \ {i})} :
                   i \in {j \in left : \A k \in left : lte(keys[j], keys[k])}}

\* ORDER BY column DESC: the rows in any order in which the column never goes
\* up; the order of rows with equal values is not fixed by the statement
OrderByDesc(rows, column) ==
    {[i \in 1..Len(rows) |-> rows[p[i]]] :
        p \in DescOrders([i \in 1..Len(rows) |-> rows[i][column]], 1..Len(rows))}

\* ORDER BY column (ascending)
OrderByAsc(rows, column) ==
    {[i \in 1..Len(rows) |-> rows[p[i]]] :
        p \in AscOrders([i \in 1..Len(rows) |-> rows[i][column]], 1..Len(rows))}

\* list.slice(0, 4)
Top4 == 4
Slice(list) == SubSeq(list, 1, IF Len(list) < Top4 THEN Len(list) ELSE Top4)

\* the answer of a query: the rows it found
Found(op, arg, data) ==
    [pc |-> "done", op |-> op, arg |-> arg, status |-> 200, data |-> data]

\* the answer of a query that found nothing or was refused
NotFound(op, arg, status) == [pc |-> "done", op |-> op, arg |-> arg, status |-> status]

\* select().from(products).where(eq(vendorID, vendorID)).all(), answered
\* with success whatever the number of rows
getProductsByVendorData(vendorID) ==
    LET vendorProducts == SelectSeq(products, LAMBDA row : row.vendorID = vendorID)
    IN  IF vendorID = <<>> THEN NotFound("byVendor", vendorID, 400)
        ELSE Found("byVendor", vendorID, vendorProducts)

getProductsByVendor(r, vendorID) ==
    /\ Take(r, getProductsByVendorData(vendorID))
    /\ UNCHANGED unread

\* where(eq(featured, true)), answered with success whatever the number of
\* rows
getFeaturedProducts(r) ==
    /\ Take(r, Found("featured", <<>>, SelectSeq(products, LAMBDA row : row.featured)))
    /\ UNCHANGED unread

getFeaturedProductsByCategoryData(category) ==
    LET featuredProducts ==
            SelectSeq(products, LAMBDA row : row.featured /\ row.category = category)
    IN  IF category = <<>> THEN NotFound("featuredByCategory", category, 400)
        ELSE IF Len(featuredProducts) = 0 THEN NotFound("featuredByCategory", category, 404)
        ELSE Found("featuredByCategory", category, featuredProducts)

getFeaturedProductsByCategory(r, category) ==
    /\ Take(r, getFeaturedProductsByCategoryData(category))
    /\ UNCHANGED unread

getProductsByCategoryData(category) ==
    LET categoryProducts == SelectSeq(products, LAMBDA row : row.category = category)
    IN  IF category = <<>> THEN NotFound("byCategory", category, 400)
        ELSE IF Len(categoryProducts) = 0 THEN NotFound("byCategory", category, 404)
        ELSE Found("byCategory", category, categoryProducts)

getProductsByCategory(r, category) ==
    /\ Take(r, getProductsByCategoryData(category))
    /\ UNCHANGED unread

\* the rows with price >= price, and <= price + range when the range is a
\* number other than 0
startingPriceRows(price, range) ==
    SelectSeq(products,
              LAMBDA row : /\ gte(row.price, price)
                           /\ (range # <<>> /\ range[1].num # 0)
                                  => lte(row.price, Plus(price, range[1])))

getProductsByStartingPrice(r, priceParam, rangeParam) ==
    LET price == parseParam(priceParam)
        range == parseParam(rangeParam)
        arg == <<priceParam, rangeParam>>
    IN  /\ req[r] = Idle
        /\ UNCHANGED unread
        /\ IF price = <<>> THEN Take(r, NotFound("byStartingPrice", arg, 400))
           ELSE IF Len(startingPriceRows(price[1], range)) = 0
                THEN Take(r, NotFound("byStartingPrice", arg, 404))
           ELSE \E foundProducts \in
                       OrderByAsc(startingPriceRows(price[1], range), "price") :
                    Take(r, Found("byStartingPrice", arg, foundProducts))

\* the query that takes the first four rows before it sorts
minDiscountRowsSliceFirst(minDiscount) ==
    OrderByDesc(Slice(SelectSeq(products, LAMBDA row : gte(row.discountPercent, minDiscount))),
                "discountPercent")

\* where(gte(discountPercent, minDiscount)).orderBy(discountPercent DESC),
\* then slice(0, 4): the lists the query may answer with
minDiscountRows(minDiscount) ==
    {Slice(productsWithDiscount) :
        productsWithDiscount \in
            OrderByDesc(SelectSeq(products, LAMBDA row : gte(row.discountPercent, minDiscount)),
                        "discountPercent")}

getProductsByMinDiscount(r, discountParam) ==
    LET minDiscount == parseParam(discountParam)
    IN  /\ req[r] = Idle
        /\ UNCHANGED unread
        /\ IF minDiscount = <<>> THEN Take(r, NotFound("byMinDiscount", discountParam, 400))
           ELSE IF \A data \in minDiscountRows(minDiscount[1]) : Len(data) = 0
                THEN Take(r, NotFound("byMinDiscount", discountParam, 404))
           ELSE \E topDiscounted \in minDiscountRows(minDiscount[1]) :
                    Take(r, Found("byMinDiscount", discountParam, topDiscounted))

\* where(eq(vendorID, vendorID)).orderBy(raiting DESC), then slice(0, 4)
getTopRatedProductsByVendor(r, vendorID) ==
    LET rows == SelectSeq(products, LAMBDA row : row.vendorID = vendorID)
    IN  /\ req[r] = Idle
        /\ UNCHANGED unread
        /\ IF vendorID = <<>> THEN Take(r, NotFound("topRated", vendorID, 400))
           ELSE IF Len(rows) = 0 THEN Take(r, NotFound("topRated", vendorID, 404))
           ELSE \E topRated \in OrderByDesc(rows, "raiting") :
                    Take(r, Found("topRated", vendorID, Slice(topRated)))

----------------------------------------------------------------------------
(* getReviewStats *)

\* reviews.reduce((sum, review) => sum + column(review), 0)
RECURSIVE SumOf(_, _)
SumOf(reviews, column) ==
    IF reviews = <<>> THEN 0
    ELSE (IF column = "replies" THEN Len(Head(reviews).replies) ELSE Head(reviews)[column])
             + SumOf(Tail(reviews), column)

\* reviews.reduce((max, review) => review.likes > max.likes ? review : max)
RECURSIVE MostLiked(_, _)
MostLiked(max, reviews) ==
    IF reviews = <<>> THEN max
    ELSE MostLiked(IF Head(reviews).likes > max.likes THEN Head(reviews) ELSE max,
                   Tail(reviews))

\* parseFloat((total / count).toFixed(2)): hundredths, rounded to nearest
Average(total, count) ==
    IF count > 0 THEN Norm((200 * total + count) \div (2 * count), 100) ELSE Q(0, 1)

\* the statistics of a list of reviews
StatsOf(reviews) ==
    [totalReviews |-> Len(reviews),
     totalLikes |-> SumOf(reviews, "likes"),
     totalDislikes |-> SumOf(reviews, "dislikes"),
     totalReplies |-> SumOf(reviews, "replies"),
     averageLikes |-> Average(SumOf(reviews, "likes"), Len(reviews)),
     averageDislikes |-> Average(SumOf(reviews, "dislikes"), Len(reviews)),
     mostLikedReview |->
         IF Len(reviews) > 0
         THEN LET mostLikedReview == MostLiked(Head(reviews), Tail(reviews))
              IN  [review_id |-> mostLikedReview.review_id,
                   likes |-> mostLikedReview.likes,
                   comments |-> mostLikedReview.comments]
         ELSE Null]

\* the statistics taken over the reviews of every product
getReviewStatsDataAllReviews(productId) == StatsOf(productReviews)

\* select().from(productReviews).where(eq(product_id, productId)), and the
\* statistics of these rows
getReviewStatsData(productId) ==
    StatsOf(SelectSeq(productReviews, LAMBDA row : row.product_id = productId))

getReviewStats(r, productId) ==
    /\ Take(r, IF productId = <<>> THEN Failed("stats", 400)
               ELSE IF ~ProductExists(productId) THEN Failed("stats", 404)
               ELSE [pc |-> "done", op |-> "stats", product_id |-> productId,
                     status |-> 200, data |-> getReviewStatsData(productId)])
    /\ UNCHANGED unread

----------------------------------------------------------------------------
(* The response is sent and the worker takes the next request *)

Return(r) ==
    /\ req[r].pc = "done"
    /\ req' = [req EXCEPT ![r] = Idle]
    /\ UNCHANGED <<catalog, products, userProfiles, productReviews, nextReviewId, writes>>

----------------------------------------------------------------------------
(* Specifications *)

Handle(r, in) ==
    \/ \E body \in in.create : createProductReviewRead(r, body)
    \/ createProductReviewInsert(r)
    \/ \E call \in ReviewIdInputs \X in.reaction : likeReviewRead(r, call[1], call[2])
    \/ likeReviewWrite(r)
    \/ \E call \in ReviewIdInputs \X in.reaction : dislikeReviewRead(r, call[1], call[2])
    \/ dislikeReviewWrite(r)
    \/ \E call \in ReviewIdInputs \X in.reaction : removeLikeDislikeRead(r, call[1], call[2])
    \/ removeLikeDislikeWrite(r)
    \/ \E call \in ReviewIdInputs \X in.reply : addReplyToReviewRead(r, call[1], call[2])
    \/ addReplyToReviewWrite(r)
    \/ \E call \in ReviewIdInputs \X in.update : updateProductReviewRead(r, call[1], call[2])
    \/ updateProductReviewWrite(r)
    \/ \E id \in ReviewIdInputs : deleteProductReviewRead(r, id)
    \/ deleteProductReviewWrite(r)
    \/ \E body \in in.bulk : bulkDeleteReviewsRead(r, body)
    \/ bulkDeleteReviewsWrite(r)
    \/ Return(r)

\* one request at a time: each handler runs from its read to its response
\* before the next request is taken; valid and invalid bodies
NextSeq ==
    Handle(1, [create |-> CreateBodies, reaction |-> ReactionBodies,
               reply |-> ReplyBodies, update |-> UpdateBodies,
               bulk |-> BulkDeleteBodies])

SpecSeq == Init /\ [][NextSeq]_vars

\* concurrent requests, interleaved at their storage calls
Next == \E r \in Slots : Handle(r, ConcurrentBodies)

Spec == Init /\ [][Next]_vars

----------------------------------------------------------------------------
(* Requests to the combination handlers *)

\* ids of stored combinations and ids that were never handed out
CombinationIdInputs == 1..MaxWrites

ProductIdInputs == {P1, P2, P3, P9}

OneChild == <<[product_id |-> P2, quantity |-> Q(1, 1)]>>
TwoChildren == <<[product_id |-> P1, quantity |-> Q(2, 1)],
                 [product_id |-> P2, quantity |-> Q(1, 1)]>>
\* the first child exists, the second does not
MissingChild == <<[product_id |-> P2, quantity |-> Q(1, 1)],
                  [product_id |-> P9, quantity |-> Q(1, 1)]>>
\* quantity 1.5
HalfQuantity == <<[product_id |-> P2, quantity |-> Q(3, 2)]>>
\* a child that does not exist, with quantity 0
MissingChildNoQuantity == <<[product_id |-> P9, quantity |-> Q(0, 1)]>>
\* a child whose product_id is a space
BlankChild == <<[product_id |-> <<" ">>, quantity |-> Q(1, 1)]>>
\* a child whose quantity is not a number
NoQuantity == <<[product_id |-> P2]>>

ChildLists == {OneChild, TwoChildren, MissingChild, HalfQuantity,
               MissingChildNoQuantity, BlankChild, NoQuantity, <<>>}

Combination(parent, childProducts) ==
    [parent_product_id |-> parent, combination_name |-> ComboName,
     child_products |-> childProducts]

CombinationBodies ==
    {Combination(p, c) : p \in {P1, P9}, c \in ChildLists}
    \cup {[parent_product_id |-> P1, child_products |-> OneChild],
          [parent_product_id |-> P1, combination_name |-> ComboName],
          [parent_product_id |-> P1, combination_name |-> ComboName,
           child_products |-> MissingChild, description |-> <<" ">>]}

CombinationUpdateBodies ==
    {[child_products |-> c] : c \in {TwoChildren, MissingChild, HalfQuantity, <<>>}}
    \cup {[parent_product_id |-> p] : p \in {P2, P9}}
    \cup {[combination_name |-> <<"X">>]}

\* a batch without the list, an empty one, valid ones, and batches whose
\* second entry is malformed or names a missing child or parent
BulkCreateBodies ==
    {<<>>}
    \cup {[combinations |-> l] :
            l \in {<<>>,
                   <<Combination(P1, OneChild)>>,
                   <<Combination(P1, OneChild), Combination(P2, TwoChildren)>>,
                   <<Combination(P1, OneChild), Combination(P2, HalfQuantity)>>,
                   <<Combination(P1, OneChild), Combination(P2, MissingChild)>>,
                   <<Combination(P1, OneChild), Combination(P9, OneChild)>>,
                   <<Combination(P1, OneChild), [parent_product_id |-> P2,
                                                 child_products |-> OneChild]>>}}

\* the combination handlers, one request at a time
NextBundles ==
    \/ \E body \in CombinationBodies : createProductCombinationRead(1, body)
    \/ createProductCombinationInsert(1)
    \/ \E body \in BulkCreateBodies : bulkCreateProductCombinationsRead(1, body)
    \/ bulkCreateProductCombinationsInsert(1)
    \/ \E call \in CombinationIdInputs \X CombinationUpdateBodies :
           updateProductCombinationRead(1, call[1], call[2])
    \/ updateProductCombinationWrite(1)
    \/ \E id \in CombinationIdInputs : deleteProductCombinationRead(1, id)
    \/ deleteProductCombinationWrite(1)
    \/ \E productId \in ProductIdInputs : deleteProduct(1, productId)
    \/ deleteProductNoId(1)
    \/ Return(1)

SpecBundles == Init /\ [][NextBundles]_vars

----------------------------------------------------------------------------
(* Requests to the product and variant handlers *)

\* ids of stored variants and ids that were never handed out
VariantIdInputs == 1..MaxWrites

\* "S", "s" and "X  L"
NameS == <<"S">>
NameLowerS == <<"s">>
NameXL == <<"X", " ", " ", "L">>

\* "size"
Size == <<"s", "i", "z", "e">>

\* a product whose slug is the slug of p1, a product whose slug is the
\* slug of the variant "s" of p1, a product_id that is taken, and a body
\* without slug
ProductBodies ==
    {[product_id |-> P3, slug |-> <<"a">>, variantState |-> TRUE,
      category |-> Indoor, price |-> Q(100, 1), vendorID |-> V1],
     [product_id |-> P3, slug |-> variantSlug(<<"a">>, NameS),
      category |-> Indoor, price |-> Q(100, 1), vendorID |-> V1],
     [product_id |-> P1, slug |-> <<"c">>,
      category |-> Indoor, price |-> Q(100, 1), vendorID |-> V1],
     [product_id |-> P3, category |-> Indoor, price |-> Q(100, 1), vendorID |-> V1]}

Variant(parent, name) ==
    [parent_product_id |-> parent, variant_name |-> name, variant_type |-> Size,
     price |-> Q(120, 1), quantity |-> Q(5, 1)]

\* variants without discount, with a discount of 10, of 0 and of "10",
\* with a name in two words and a price of "120", and a body without
\* price for a parent that does not exist
VariantBodies ==
    {Variant(p, n) : p \in {P1, P3, P9}, n \in {NameS, NameLowerS}}
    \cup {[f \in DOMAIN Variant(P1, NameS) \cup {"discount_percent"} |->
              IF f = "discount_percent" THEN d ELSE Variant(P1, NameS)[f]] :
            d \in {Q(10, 1), Q(0, 1), S(<<"1", "0">>)}}
    \cup {[parent_product_id |-> P1, variant_name |-> NameXL, variant_type |-> Size,
           price |-> S(<<"1", "2", "0">>), quantity |-> S(<<"5">>),
           discount_percent |-> Q(10, 1)],
          [parent_product_id |-> P9, variant_name |-> NameS, variant_type |-> Size,
           quantity |-> Q(5, 1)]}

VariantUpdateBodies ==
    {[price |-> Q(200, 1)],
     [discount_percent |-> Q(50, 1)],
     [price |-> Q(200, 1), discount_percent |-> Q(50, 1)],
     [is_active |-> FALSE]}

\* slugs of products, of variants with and without a timestamp, of
\* nothing, and the empty slug
SlugInputs ==
    {<<"a">>, <<"b">>, <<"z">>, <<>>,
     variantSlug(<<"a">>, NameS), variantSlug(<<"a">>, NameXL)}
    \cup {TimestampSlug(variantSlug(<<"a">>, NameS), t) : t \in {0, 1}}

\* the product and variant handlers, one request at a time
NextVariants ==
    \/ \E body \in ProductBodies : createProduct(1, body)
    \/ \E productId \in ProductIdInputs : deleteProduct(1, productId)
    \/ deleteProductNoId(1)
    \/ \E body \in VariantBodies : createProductVariantRead(1, body)
    \/ createProductVariantInsert(1)
    \/ \E call \in VariantIdInputs \X VariantUpdateBodies :
           updateProductVariant(1, call[1], call[2])
    \/ updateProductVariantNoFields(1)
    \/ \E id \in VariantIdInputs : deleteProductVariant(1, id)
    \/ \E slug \in SlugInputs : getProductBySlug(1, slug)
    \/ Return(1)

SpecVariants == Init /\ [][NextVariants]_vars

----------------------------------------------------------------------------
(* Requests to the catalog: products created, changed, deleted and queried *)

CatalogProduct(id, slug, vendorID, category, discount) ==
    [product_id |-> id, slug |-> slug, vendorID |-> vendorID, category |-> category,
     price |-> Q(150, 1), discount_percent |-> Q(discount, 1)]

\* products with discounts of 30, 15, 50 and 22 (or 30 again), one of them
\* featured and rated, one with the slug of p1, and a body without price
CatalogBodies ==
    {CatalogProduct(P3, <<"c">>, V2, Indoor, 30),
     CatalogProduct(P4, <<"d">>, V1, Herbs, 15),
     [f \in DOMAIN CatalogProduct(P5, <<"e">>, V2, Herbs, 50) \cup {"featured", "raiting"} |->
         IF f = "featured" THEN TRUE
         ELSE IF f = "raiting" THEN Q(4, 1)
         ELSE CatalogProduct(P5, <<"e">>, V2, Herbs, 50)[f]],
     CatalogProduct(P6, <<"f">>, V1, Indoor, 22),
     CatalogProduct(P6, <<"a">>, V1, Indoor, 30),
     [product_id |-> P4, slug |-> <<"d">>, vendorID |-> V1, category |-> Herbs]}

CatalogIdInputs == {P1, P2, P9}

ProductUpdateBodies ==
    {[slug |-> <<"b">>], [featured |-> FALSE], [discountPercent |-> Q(60, 1)]}

VendorInputs == {V1, V2, V9, <<>>}

CategoryInputs == {Indoor, Herbs, Cacti, <<>>}

\* no price, 100, 150 and 200
PriceInputs == {<<>>, <<"1", "0", "0">>, <<"1", "5", "0">>, <<"2", "0", "0">>}

\* no range, 0 and 20
RangeInputs == {<<>>, <<"0">>, <<"2", "0">>}

\* no discount, 0, 20 and 70
DiscountInputs == {<<>>, <<"0">>, <<"2", "0">>, <<"7", "0">>}

\* the catalog handlers, one request at a time
NextCatalog ==
    \/ \E body \in CatalogBodies : createProduct(1, body)
    \/ \E call \in CatalogIdInputs \X ProductUpdateBodies : updateProduct(1, call[1], call[2])
    \/ updateProductNoFields(1)
    \/ \E productId \in CatalogIdInputs : deleteProduct(1, productId)
    \/ \E vendorID \in VendorInputs : getProductsByVendor(1, vendorID)
    \/ getFeaturedProducts(1)
    \/ \E category \in CategoryInputs : getFeaturedProductsByCategory(1, category)
    \/ \E category \in CategoryInputs : getProductsByCategory(1, category)
    \/ \E call \in PriceInputs \X RangeInputs : getProductsByStartingPrice(1, call[1], call[2])
    \/ \E discount \in DiscountInputs : getProductsByMinDiscount(1, discount)
    \/ \E vendorID \in VendorInputs : getTopRatedProductsByVendor(1, vendorID)
    \/ Return(1)

SpecCatalog == Init /\ [][NextCatalog]_vars

----------------------------------------------------------------------------
(* Requests to the review handlers and to the statistics *)

\* reviews of two products by two users, their reactions, a reply, an
\* update of the comments and a bulk delete
StatsBodies ==
    [create |-> {[product_id |-> p, user_uuid |-> u, comments |-> GoodComment] :
                    p \in {P1, P2}, u \in {U1, U2}},
     reaction |-> {[user_uuid |-> u] : u \in {U1, U2}},
     reply |-> {[user_uuid |-> U1, comment |-> Hello]},
     update |-> {[comments |-> NiceComment]},
     bulk |-> {[review_ids |-> <<1, 2>>]}]

StatsProductInputs == {P1, P2, P9, <<>>}

\* the review handlers and the statistics, one request at a time
NextStats ==
    \/ Handle(1, StatsBodies)
    \/ \E productId \in StatsProductInputs : getReviewStats(1, productId)

SpecStats == Init /\ [][NextStats]_vars

----------------------------------------------------------------------------
(* Requests to the whole store: products with their reviews, variants and
   combinations *)

\* a product whose product_id is that of p1 after a space
StoreProductBodies ==
    {[product_id |-> PaddedP1, slug |-> <<"c">>, category |-> Indoor,
      price |-> Q(100, 1), vendorID |-> V1]}

\* reviews of p1, of p2 and of " p1"
StoreReviewBodies ==
    {[product_id |-> p, user_uuid |-> u, comments |-> GoodComment] :
        p \in {P1, P2, PaddedP1}, u \in {U1, U2}}

StoreVariantBodies == {Variant(P1, NameS), Variant(P2, NameS)}

StoreCombinationBodies ==
    {Combination(P1, OneChild),
     Combination(P2, <<[product_id |-> P1, quantity |-> Q(1, 1)]>>)}

StoreProductIdInputs == {P1, P2, P9}

\* the handlers that write the product, review, variant and combination
\* tables, one request at a time
NextStore ==
    \/ \E body \in StoreProductBodies : createProduct(1, body)
    \/ \E body \in StoreReviewBodies : createProductReviewRead(1, body)
    \/ createProductReviewInsert(1)
    \/ \E body \in StoreVariantBodies : createProductVariantRead(1, body)
    \/ createProductVariantInsert(1)
    \/ \E body \in StoreCombinationBodies : createProductCombinationRead(1, body)
    \/ createProductCombinationInsert(1)
    \/ \E productId \in StoreProductIdInputs : deleteProduct(1, productId)
    \/ Return(1)

SpecStore == Init /\ [][NextStore]_vars

----------------------------------------------------------------------------
(* Properties of the review store *)

Range(list) == {list[i] : i \in 1..Len(list)}

\* slot r holds the response of a successful `op` on review `id` for `user_uuid`
Succeeded(r, op, id, user_uuid) ==
    /\ req[r].pc = "done"
    /\ req[r].status \in {200, 201}
    /\ req[r].op = op
    /\ req[r].id = id
    /\ req[r].user_uuid = user_uuid

\* slot r holds the response of an `op` that failed with `status`
FailedWith(r, op, status) ==
    /\ req[r].pc = "done"
    /\ req[r].op = op
    /\ req[r].status = status

\* C1: in every state reachable by interleaved createReview, like, dislike,
\* removeReaction, addReply and updateReview requests, no user_uuid is in
\* both liked_by and disliked_by of the same review.
C1_MutuallyExclusive ==
    \A i \in 1..Len(productReviews) :
        Range(productReviews[i].liked_by) \cap Range(productReviews[i].disliked_by) = {}

\* a like of a user has been written while a dislike of the same user on the
\* same review, computed from the row as it was before, is still to be written
C1_Witness ==
    \E r1, r2 \in Slots, u \in userProfiles, id \in ReviewIdInputs :
        /\ Succeeded(r1, "like", id, u)
        /\ req[r2].pc = "write" /\ req[r2].op = "dislike"
        /\ req[r2].id = id /\ req[r2].args.user_uuid = u
        /\ Len(SelectReview(id)) > 0
        /\ Includes(SelectReview(id)[1].liked_by, u)

\* C2: in every reachable state the likes counter of a review is the number
\* of users in liked_by, the dislikes counter the number of users in
\* disliked_by, and neither list holds a user twice.
C2_CountersMatch ==
    \A i \in 1..Len(productReviews) :
        /\ productReviews[i].likes = Len(productReviews[i].liked_by)
        /\ productReviews[i].likes = Cardinality(Range(productReviews[i].liked_by))
        /\ productReviews[i].dislikes = Len(productReviews[i].disliked_by)
        /\ productReviews[i].dislikes = Cardinality(Range(productReviews[i].disliked_by))

\* a dislike has succeeded on a review that then holds one like and one
\* dislike
C2_Witness ==
    \E r \in Slots, u \in userProfiles, id \in ReviewIdInputs :
        /\ Succeeded(r, "dislike", id, u)
        /\ Len(SelectReview(id)) > 0
        /\ SelectReview(id)[1].likes = 1
        /\ SelectReview(id)[1].dislikes = 1

\* C3: in every reachable state, concurrent createReview requests included,
\* there is at most one review row per (product_id, user_uuid) pair.
C3_OneReviewPerPair ==
    \A i, j \in 1..Len(productReviews) :
        (/\ productReviews[i].product_id = productReviews[j].product_id
         /\ productReviews[i].user_uuid = productReviews[j].user_uuid) => i = j

----------------------------------------------------------------------------
(* Contracts of single calls, for requests handled one at a time *)

\* the review with this id in a table, as a list of at most one row
ReviewIn(table, id) == SelectSeq(table, LAMBDA row : row.review_id = id)

\* the step takes up a request for handler `op` in slot 1
TakesUp(op) == req[1] = Idle /\ req'[1].pc # "idle" /\ req'[1].op = op

\* a review by body.user_uuid on body.product_id is stored
ReviewExistsFor(body) ==
    \E i \in 1..Len(productReviews) :
        /\ productReviews[i].product_id = body.product_id
        /\ productReviews[i].user_uuid = body.user_uuid

\* the body passes the 400 checks of createProductReview
PassesCreateValidation(body) ==
    /\ Truthy(body, "product_id") /\ Truthy(body, "user_uuid") /\ Truthy(body, "comments")
    /\ Len(Trim(body.comments)) >= MinCommentsLength
    /\ ("replies" \in DOMAIN body /\ Len(body.replies) > 0) => validateReplies(body.replies)

\* C4 as stated: a createReview(P, U, ...) issued when a review by U on P
\* exists always fails with Conflict (409) and leaves the stored reviews
\* unchanged.
C4_DuplicateAlwaysConflict ==
    [][TakesUp("create") =>
          \A body \in CreateBodies :
              (ReviewExistsFor(body) /\ createProductReviewRead(1, body)) =>
                  /\ req'[1] = Failed("create", 409)
                  /\ productReviews' = productReviews]_vars

\* C4 as amended: a createReview(P, U, ...) issued when a review by U on P
\* exists always fails and leaves the stored reviews unchanged: with
\* Conflict (409) when its comments and replies pass validation, with 400
\* when they do not.
C4_DuplicateRejected ==
    [][TakesUp("create") =>
          \A body \in CreateBodies :
              (ReviewExistsFor(body) /\ createProductReviewRead(1, body)) =>
                  /\ req'[1] = Failed("create", IF PassesCreateValidation(body) THEN 409 ELSE 400)
                  /\ productReviews' = productReviews]_vars

\* a second createReview of a user who has reviewed has been answered 409
C4_Witness ==
    /\ FailedWith(1, "create", 409)
    /\ Len(productReviews) = 1
    /\ nextReviewId = 2

\* the reaction requests of a given user on a given review
ReactionCalls == ReviewIdInputs \X {[user_uuid |-> u] : u \in UuidInputs}

\* every user other than u is in the same reactor lists of both rows
OthersUnchanged(old, new, u) ==
    \A v \in UuidInputs \ {u} :
        /\ Includes(old.liked_by, v) <=> Includes(new.liked_by, v)
        /\ Includes(old.disliked_by, v) <=> Includes(new.disliked_by, v)

\* C5: like(review, U) fails NotFound when the review or the user is
\* absent and Conflict when U is in liked_by, the review unchanged in both
\* cases; otherwise it succeeds, U is then in liked_by and not in
\* disliked_by, and the reactions of every other user are unchanged.
C5_LikeContract ==
    [][/\ TakesUp("like") =>
            \A call \in ReactionCalls :
                LET id == call[1]
                    u == call[2].user_uuid
                    old == ReviewIn(productReviews, id)
                IN  likeReviewRead(1, id, call[2]) =>
                       /\ productReviews' = productReviews
                       /\ (old = <<>> \/ ~UserExists(u)) => req'[1] = Failed("like", 404)
                       /\ (old # <<>> /\ UserExists(u) /\ Includes(old[1].liked_by, u))
                              => req'[1] = Failed("like", 409)
                       /\ (old # <<>> /\ UserExists(u) /\ ~Includes(old[1].liked_by, u))
                              => AtWrite(1, "like")'
       /\ likeReviewWrite(1) =>
            LET id == req[1].id
                u == req[1].args.user_uuid
                old == ReviewIn(productReviews, id)
                new == ReviewIn(productReviews', id)
            IN  /\ req'[1] = Done("like", id, req[1].args, 200)
                /\ Len(new) = 1
                /\ Includes(new[1].liked_by, u)
                /\ ~Includes(new[1].disliked_by, u)
                /\ OthersUnchanged(old[1], new[1], u)]_vars

\* a user has liked a review on which another user had reacted
C5_Witness ==
    \E id \in ReviewIdInputs, u \in userProfiles :
        /\ Succeeded(1, "like", id, u)
        /\ Len(SelectReview(id)) = 1
        /\ Includes(SelectReview(id)[1].liked_by, u)
        /\ \E v \in userProfiles \ {u} :
               Includes(SelectReview(id)[1].liked_by, v) \/ Includes(SelectReview(id)[1].disliked_by, v)

\* C6: dislike(review, U) moves U from NONE or LIKED to DISLIKED and fails
\* Conflict, the review unchanged, when U is in disliked_by; like(R,U) then
\* dislike(R,U) on a fresh review gives likes 0, dislikes 1, liked_by [],
\* disliked_by [U].
C6_DislikeContract ==
    [][/\ TakesUp("dislike") =>
            \A call \in ReactionCalls :
                LET id == call[1]
                    u == call[2].user_uuid
                    old == ReviewIn(productReviews, id)
                IN  dislikeReviewRead(1, id, call[2]) =>
                       /\ productReviews' = productReviews
                       /\ (old # <<>> /\ UserExists(u) /\ Includes(old[1].disliked_by, u))
                              => req'[1] = Failed("dislike", 409)
                       /\ (old # <<>> /\ UserExists(u) /\ ~Includes(old[1].disliked_by, u))
                              => AtWrite(1, "dislike")'
       /\ dislikeReviewWrite(1) =>
            LET id == req[1].id
                u == req[1].args.user_uuid
                old == ReviewIn(productReviews, id)
                new == ReviewIn(productReviews', id)
            IN  /\ req'[1] = Done("dislike", id, req[1].args, 200)
                /\ Len(new) = 1
                /\ ~Includes(new[1].liked_by, u)
                /\ Includes(new[1].disliked_by, u)
                /\ (old[1].liked_by = <<u>> /\ old[1].disliked_by = <<>>) =>
                      /\ new[1].likes = 0 /\ new[1].dislikes = 1
                      /\ new[1].liked_by = <<>> /\ new[1].disliked_by = <<u>>
       /\ likeReviewWrite(1) =>
            LET id == req[1].id
                u == req[1].args.user_uuid
                old == ReviewIn(productReviews, id)
                new == ReviewIn(productReviews', id)
            IN  (old[1].liked_by = <<>> /\ old[1].disliked_by = <<>>) =>
                      /\ new[1].likes = 1 /\ new[1].liked_by = <<u>>
                      /\ new[1].dislikes = 0 /\ new[1].disliked_by = <<>>]_vars

\* the user who was the only one to like a review has disliked it
C6_Witness ==
    \E id \in ReviewIdInputs, u \in userProfiles :
        /\ Succeeded(1, "dislike", id, u)
        /\ writes = 3
        /\ Len(SelectReview(id)) = 1
        /\ SelectReview(id)[1].likes = 0 /\ SelectReview(id)[1].dislikes = 1
        /\ SelectReview(id)[1].liked_by = <<>> /\ SelectReview(id)[1].disliked_by = <<u>>

\* C7: removeReaction(review, U) moves U from LIKED or DISLIKED to NONE and
\* fails with a validation error (400), the review unchanged, when U is in
\* neither list; a dislike by a user in neither list (as after like then
\* removeReaction) ends with U in disliked_by and not in liked_by.
C7_RemoveContract ==
    [][/\ TakesUp("remove") =>
            \A call \in ReactionCalls :
                LET id == call[1]
                    u == call[2].user_uuid
                    old == ReviewIn(productReviews, id)
                    reacted == Includes(old[1].liked_by, u) \/ Includes(old[1].disliked_by, u)
                IN  removeLikeDislikeRead(1, id, call[2]) =>
                       /\ productReviews' = productReviews
                       /\ (old # <<>> /\ ~reacted) => req'[1] = Failed("remove", 400)
                       /\ (old # <<>> /\ reacted) => AtWrite(1, "remove")'
       /\ removeLikeDislikeWrite(1) =>
            LET id == req[1].id
                u == req[1].args.user_uuid
                new == ReviewIn(productReviews', id)
            IN  /\ req'[1] = Done("remove", id, req[1].args, 200)
                /\ Len(new) = 1
                /\ ~Includes(new[1].liked_by, u)
                /\ ~Includes(new[1].disliked_by, u)
       /\ dislikeReviewWrite(1) =>
            LET id == req[1].id
                u == req[1].args.user_uuid
                old == ReviewIn(productReviews, id)
                new == ReviewIn(productReviews', id)
            IN  (~Includes(old[1].liked_by, u) /\ ~Includes(old[1].disliked_by, u)) =>
                      /\ new[1].liked_by = old[1].liked_by
                      /\ new[1].disliked_by = Append(old[1].disliked_by, u)]_vars

\* a user's reaction has been removed from a review (create, reaction,
\* removal) and the user is in neither list
C7_Witness ==
    \E id \in ReviewIdInputs, u \in userProfiles :
        /\ Succeeded(1, "remove", id, u)
        /\ Len(SelectReview(id)) = 1
        /\ SelectReview(id)[1].likes = 0 /\ SelectReview(id)[1].dislikes = 0

----------------------------------------------------------------------------
(* Concurrent reactions, and the replies list *)

\* C8: once a like by U and a dislike by V (V # U) on the same review have
\* both returned success, whatever their interleaving, U is in liked_by and
\* V is in disliked_by.
C8_BothReactionsKept ==
    \A r1, r2 \in Slots, u, v \in userProfiles, id \in ReviewIdInputs :
        (/\ u # v
         /\ Succeeded(r1, "like", id, u)
         /\ Succeeded(r2, "dislike", id, v)
         /\ Len(SelectReview(id)) = 1) =>
            /\ Includes(SelectReview(id)[1].liked_by, u)
            /\ Includes(SelectReview(id)[1].disliked_by, v)

\* list a is the beginning of list b
IsPrefix(a, b) == Len(a) <= Len(b) /\ SubSeq(b, 1, Len(a)) = a

\* C9: the replies list of a review is append-only: while the review is
\* stored every step keeps the replies it had, at their positions, and
\* addReply adds exactly one entry at the end.
C9_RepliesAppendOnly ==
    [][\A i \in 1..Len(productReviews) :
          LET old == productReviews[i]
              new == ReviewIn(productReviews', old.review_id)
          IN  new # <<>> =>
                 /\ IsPrefix(old.replies, new[1].replies)
                 /\ (\E r \in Slots : addReplyToReviewWrite(r) /\ req[r].id = old.review_id)
                        => Len(new[1].replies) = Len(old.replies) + 1]_vars

\* C10: in every reachable state every stored reply has a non-empty
\* user_uuid, a created_at stamp and a comment of at least 5 characters.
C10_RepliesWellFormed ==
    \A i \in 1..Len(productReviews) :
        \A k \in 1..Len(productReviews[i].replies) :
            LET reply == productReviews[i].replies[k]
            IN  /\ Truthy(reply, "user_uuid")
                /\ IsString(reply, "created_at")
                /\ IsString(reply, "comment")
                /\ Len(reply.comment) >= MinReplyLength

----------------------------------------------------------------------------
(* bulkDeleteReviews, for requests handled one at a time *)

\* the list is accepted by the 400 checks: not empty, no blank id
PassesBulkDeleteValidation(body) ==
    /\ "review_ids" \in DOMAIN body
    /\ Len(body.review_ids) > 0
    /\ \A i \in 1..Len(body.review_ids) : body.review_ids[i] # BlankId

\* C11: bulkDelete(review_ids) is all-or-nothing: if any id of the list
\* (of non-blank ids) matches no stored review the call fails NotFound (404)
\* naming the missing ids and deletes nothing; otherwise every listed review
\* is deleted and no review outside the list is deleted.  A rejected list
\* (empty, or with a blank id) deletes nothing either.
C11_BulkDeleteAllOrNothing ==
    [][/\ TakesUp("bulkDelete") =>
            \A body \in BulkDeleteBodies :
                bulkDeleteReviewsRead(1, body) =>
                    /\ productReviews' = productReviews
                    /\ PassesBulkDeleteValidation(body) =>
                         LET missing == {id \in Range(body.review_ids) :
                                            ReviewIn(productReviews, id) = <<>>}
                         IN  /\ missing # {} =>
                                  /\ req'[1].pc = "done" /\ req'[1].status = 404
                                  /\ Range(req'[1].missing) = missing
                             /\ missing = {} => AtWrite(1, "bulkDelete")'
                    /\ ~PassesBulkDeleteValidation(body) => req'[1] = Failed("bulkDelete", 400)
       /\ bulkDeleteReviewsWrite(1) =>
            LET listed == Range(req[1].args.review_ids)
            IN  /\ req'[1].pc = "done" /\ req'[1].status = 200
                /\ \A id \in listed : /\ ReviewIn(productReviews, id) # <<>>
                                      /\ ReviewIn(productReviews', id) = <<>>
                /\ \A i \in 1..Len(productReviews) :
                       productReviews[i].review_id \notin listed =>
                           ReviewIn(productReviews', productReviews[i].review_id)
                               = <<productReviews[i]>>
                /\ Len(productReviews') <= Len(productReviews)]_vars

\* a bulk delete of a stored and a missing review was answered 404 naming
\* the missing one, and both stored reviews are still there
C11_Witness ==
    /\ req[1] = NotFoundIds("bulkDelete", <<3>>)
    /\ Len(productReviews) = 2
    /\ ReviewIn(productReviews, 2) # <<>>

----------------------------------------------------------------------------
(* Combinations, for requests handled one at a time *)

\* some child of the body names a product that is not stored
HasMissingChild(body) ==
    /\ "child_products" \in DOMAIN body
    /\ \E i \in 1..Len(body.child_products) :
           /\ IsString(body.child_products[i], "product_id")
           /\ ~ProductExists(body.child_products[i].product_id)

\* the body passes the 400 checks of createProductCombination
PassesCombinationValidation(body) ==
    /\ Truthy(body, "parent_product_id") /\ Truthy(body, "combination_name")
    /\ "child_products" \in DOMAIN body
    /\ validateChildProducts(body.child_products)

\* C12 as stated: a create with a child product_id that does not exist
\* always fails NotFound (404) and persists nothing, also when the parent
\* and the other children exist.
C12_MissingChildAlwaysNotFound ==
    [][TakesUp("createCombination") =>
          \A body \in CombinationBodies :
              (HasMissingChild(body) /\ createProductCombinationRead(1, body)) =>
                  /\ req'[1].pc = "done" /\ req'[1].status = 404
                  /\ productCombinations' = productCombinations]_vars

\* C12 as amended: a create with a child product_id that does not exist
\* always fails and persists nothing: with NotFound (404) when the body
\* passes validation, with 400 when it does not.
C12_MissingChildRejected ==
    [][TakesUp("createCombination") =>
          \A body \in CombinationBodies :
              (HasMissingChild(body) /\ createProductCombinationRead(1, body)) =>
                  /\ req'[1].pc = "done"
                  /\ req'[1].status = IF PassesCombinationValidation(body) THEN 404 ELSE 400
                  /\ productCombinations' = productCombinations]_vars

\* a create whose parent and first child exist was answered 404 for the
\* missing second child, next to a stored combination
C12_Witness ==
    /\ req[1] = NotFoundIds("createCombination", <<P9>>)
    /\ Len(productCombinations) = 1
    /\ ProductExists(P1) /\ ProductExists(P2)

\* C13: in every reachable state every stored combination has a non-empty
\* child_products list whose entries have a non-empty product_id and an
\* integer quantity >= 1.
C13_ChildProductsWellFormed ==
    \A i \in 1..Len(productCombinations) :
        LET childProducts == productCombinations[i].child_products
        IN  /\ Len(childProducts) > 0
            /\ \A k \in 1..Len(childProducts) :
                   /\ Truthy(childProducts[k], "product_id")
                   /\ "quantity" \in DOMAIN childProducts[k]
                   /\ childProducts[k].quantity.den > 0
                   /\ childProducts[k].quantity.num % childProducts[k].quantity.den = 0
                   /\ childProducts[k].quantity.num >= childProducts[k].quantity.den

\* an update has replaced the child products of a stored combination
C13_Witness ==
    \E id \in CombinationIdInputs :
        /\ req[1].pc = "done" /\ req[1].op = "updateCombination"
        /\ req[1] = Answer("updateCombination", id, 200)
        /\ Len(SelectCombination(id)) = 1
        /\ SelectCombination(id)[1].child_products = TwoChildren
        /\ Len(productCombinations) = 3

\* every entry of the batch is well formed and names stored products
BatchIsValid(body) ==
    /\ "combinations" \in DOMAIN body
    /\ Len(body.combinations) > 0
    /\ \A i \in 1..Len(body.combinations) :
           /\ PassesCombinationValidation(body.combinations[i])
           /\ ProductExists(body.combinations[i].parent_product_id)
           /\ ~HasMissingChild(body.combinations[i])

\* C14: bulkCreate validates every entry and checks every parent and child
\* before writing any row: a batch of N valid combinations yields exactly N
\* new rows with pairwise distinct combination_ids, and a batch with a
\* malformed entry or a missing parent or child yields no new row.
C14_BulkCreateAllOrNothing ==
    [][/\ TakesUp("bulkCreate") =>
            \A body \in BulkCreateBodies :
                bulkCreateProductCombinationsRead(1, body) =>
                    /\ productCombinations' = productCombinations
                    /\ BatchIsValid(body) => AtWrite(1, "bulkCreate")'
                    /\ ~BatchIsValid(body) =>
                           req'[1].pc = "done" /\ req'[1].status \in {400, 404}
       /\ bulkCreateProductCombinationsInsert(1) =>
            LET n == Len(req[1].args.combinations)
                old == Len(productCombinations)
            IN  /\ req'[1].pc = "done" /\ req'[1].status = 201 /\ req'[1].count = n
                /\ Len(productCombinations') = old + n
                /\ SubSeq(productCombinations', 1, old) = productCombinations
                /\ \A i, j \in 1..(old + n) :
                       productCombinations'[i].combination_id
                           = productCombinations'[j].combination_id => i = j
                /\ \A i \in 1..n :
                       /\ productCombinations'[old + i].parent_product_id
                              = req[1].args.combinations[i].parent_product_id
                       /\ productCombinations'[old + i].child_products
                              = req[1].args.combinations[i].child_products]_vars

\* a batch of two combinations has been stored after a single create
C14_Witness ==
    /\ req[1].pc = "done" /\ req[1].op = "bulkCreate" /\ req[1].status = 201
    /\ req[1].count = 2
    /\ Len(productCombinations) = 3

----------------------------------------------------------------------------
(* Products and variants, for requests handled one at a time *)

\* C15: createVariant never fails because of a slug collision: when the
\* slug derived from the parent slug and the variant name is already used
\* by a stored variant, the call still succeeds and the new variant is
\* stored with a slug that no other stored variant has, for any number of
\* colliding creations and whatever the time between them.
C15_SlugCollisionNeverFails ==
    [][createProductVariantInsert(1) =>
          /\ req'[1].status = 200
          /\ Len(productVariants') = Len(productVariants) + 1
          /\ \A i, j \in 1..Len(productVariants') :
                 productVariants'[i].slug = productVariants'[j].slug => i = j]_vars

\* C16: in every reachable state, after any sequence of createVariant and
\* updateVariant calls, every variant whose discount_percent is set has
\* discount_price = price - price * discount_percent / 100.
C16_DiscountConsistent ==
    \A i \in 1..Len(productVariants) :
        productVariants[i].discount_percent # Null =>
            productVariants[i].discount_price
                = DiscountPrice(productVariants[i].price, productVariants[i].discount_percent)

\* the body has the fields createProductVariant requires
HasRequiredVariantFields(body) ==
    /\ Truthy(body, "parent_product_id") /\ Truthy(body, "variant_name")
    /\ Truthy(body, "variant_type") /\ TruthyValue(body, "price")
    /\ "quantity" \in DOMAIN body

\* C17: createVariant (of a body with the required fields) fails NotFound
\* (404) and stores nothing when the parent product is absent; when the
\* parent exists and discount_percent is present the stored variant has
\* discount_price = price - price * discount_percent / 100 (price 120 with
\* 10 percent gives 108), and when discount_percent is absent both
\* discount fields are stored as null.
C17_CreateVariantContract ==
    [][/\ TakesUp("createVariant") =>
            \A body \in VariantBodies :
                (/\ HasRequiredVariantFields(body)
                 /\ ~ProductExists(body.parent_product_id)
                 /\ createProductVariantRead(1, body)) =>
                     /\ req'[1] = Failed("createVariant", 404)
                     /\ productVariants' = productVariants
       /\ (createProductVariantInsert(1) /\ req'[1].status = 200) =>
            LET body == req[1].args
                stored == productVariants'[Len(productVariants')]
            IN  /\ Len(productVariants') = Len(productVariants) + 1
                /\ "discount_percent" \in DOMAIN body =>
                       /\ stored.discount_price
                              = DiscountPrice(parseFloat(body.price),
                                              parseFloat(body.discount_percent))
                       /\ (parseFloat(body.price) = Q(120, 1)
                           /\ parseFloat(body.discount_percent) = Q(10, 1))
                              => stored.discount_price = Q(108, 1)
                /\ "discount_percent" \notin DOMAIN body =>
                       /\ stored.discount_percent = Null
                       /\ stored.discount_price = Null]_vars

\* slot 1 holds the answer of getBySlug
GotBySlug == req[1].pc = "done" /\ req[1].op = "getBySlug"

\* C18: for every product P with variant_state = true, getBySlug(P.slug)
\* returns has_variants = true if and only if at least one active variant
\* of P is stored at the time of the call.
C18_HasVariantsIffActive ==
    GotBySlug =>
        \A i \in 1..Len(products) :
            (products[i].variantState /\ products[i].slug = req[1].slug) =>
                /\ req[1].status = 200
                /\ req[1].data.has_variants
                       <=> (\E k \in 1..Len(productVariants) :
                               /\ productVariants[k].parent_product_id = products[i].product_id
                               /\ productVariants[k].is_active)

\* C19: getBySlug(s) for a (non-empty) s that is no product's slug: if s is
\* the slug of an active variant V it returns V's parent product with
\* variants equal to exactly the active variants of that parent and
\* selected_variant = V; if s is the slug of no active variant it fails
\* NotFound (404); an inactive variant is never returned, neither in
\* variants nor as selected_variant.
C19_VariantPhase ==
    GotBySlug =>
        LET s == req[1].slug
            data == req[1].data
            active == {k \in 1..Len(productVariants) :
                          productVariants[k].slug = s /\ productVariants[k].is_active}
        IN  /\ (s # <<>> /\ \A i \in 1..Len(products) : products[i].slug # s) =>
                   /\ active = {} => req[1].status = 404
                   /\ \A k \in active :
                          /\ req[1].status = 200
                          /\ data.product.product_id = productVariants[k].parent_product_id
                          /\ data.selected_variant = productVariants[k]
                          /\ Range(data.variants)
                                 = {row \in Range(productVariants) :
                                       /\ row.parent_product_id = productVariants[k].parent_product_id
                                       /\ row.is_active}
                          /\ Len(data.variants) = Cardinality(Range(data.variants))
            /\ req[1].status = 200 =>
                   /\ \A k \in 1..Len(data.variants) : data.variants[k].is_active
                   /\ "selected_variant" \in DOMAIN data => data.selected_variant.is_active

\* getBySlug of the slug of an active variant has answered with it and
\* its parent, while another variant of the parent is inactive
C19_Witness ==
    /\ GotBySlug
    /\ req[1].status = 200
    /\ "selected_variant" \in DOMAIN req[1].data
    /\ Len(req[1].data.variants) = 1
    /\ \E k \in 1..Len(productVariants) :
           /\ productVariants[k].parent_product_id = req[1].data.product.product_id
           /\ ~productVariants[k].is_active

\* C20: deleteVariant and deleteProduct report the outcome by affected
\* rows: a call whose id matches no stored row returns NotFound (404)
\* rather than success, and a call that returns success has removed
\* exactly the row with that id.
C20_DeleteReportsAffectedRows ==
    [][/\ TakesUp("deleteVariant") =>
            \A id \in VariantIdInputs :
                deleteProductVariant(1, id) =>
                    /\ Len(SelectVariant(id)) = 0 => req'[1].status = 404
                    /\ req'[1].status = 200 =>
                           /\ Len(SelectVariant(id)) = 1
                           /\ Len(productVariants') = Len(productVariants) - 1
       /\ TakesUp("deleteProduct") =>
            \A productId \in ProductIdInputs :
                deleteProduct(1, productId) =>
                    /\ Len(SelectProduct(productId)) = 0 => req'[1].status = 404
                    /\ req'[1].status = 200 =>
                           /\ Len(SelectProduct(productId)) = 1
                           /\ Len(products') = Len(products) - 1]_vars

----------------------------------------------------------------------------
(* The catalog, for requests handled one at a time *)

\* the handlers that answer with a list of products
QueryOps == {"byVendor", "byCategory", "featured", "featuredByCategory",
             "byMinDiscount", "topRated", "byStartingPrice"}

\* C21: every product query (by vendor, by category, featured, featured by
\* category, by minimum discount, top-rated by vendor, by starting price)
\* answers NotFound and never success with an empty list when no product
\* matches.
C21_QueriesNeverSucceedEmpty ==
    (req[1].pc = "done" /\ req[1].op \in QueryOps /\ req[1].status = 200)
        => Len(req[1].data) > 0

\* the products whose discount_percent is set and >= d
AtLeastDiscount(d) ==
    {i \in 1..Len(products) : products[i].discountPercent # Null
                              /\ gte(products[i].discountPercent, d)}

\* C22: getProductsByMinDiscount(d) answers with exactly min(4, k) of the k
\* products whose discount_percent >= d, in descending order of discount,
\* none of them without a discount and none with a lower discount than a
\* product left out (NotFound when k = 0); discounts [25, 30, 15, 50, 22]
\* with d = 20 give [50, 30, 25, 22].
C22_TopDiscounted ==
    (req[1].pc = "done" /\ req[1].op = "byMinDiscount" /\ req[1].arg # <<>>) =>
        LET d == Q(DigitsValue(req[1].arg), 1)
            k == Cardinality(AtLeastDiscount(d))
            data == req[1].data
        IN  /\ k = 0 <=> req[1].status = 404
            /\ k > 0 =>
                  /\ req[1].status = 200
                  /\ Len(data) = IF k < 4 THEN k ELSE 4
                  /\ \A n \in 1..Len(data) :
                         /\ \E i \in AtLeastDiscount(d) : products[i] = data[n]
                         /\ \A m \in 1..Len(data) : data[n] = data[m] => n = m
                         /\ n < Len(data) =>
                                gte(data[n].discountPercent, data[n + 1].discountPercent)
                         /\ \A i \in AtLeastDiscount(d) :
                                (\A m \in 1..Len(data) : data[m] # products[i]) =>
                                    gte(data[n].discountPercent, products[i].discountPercent)
                  /\ (d = Q(20, 1)
                      /\ [i \in 1..Len(products) |-> products[i].discountPercent]
                             \in {<<Q(25, 1), Null, Q(30, 1), Q(15, 1), Q(50, 1), Q(22, 1)>>})
                         => [n \in 1..Len(data) |-> data[n].discountPercent.num]
                                = <<50, 30, 25, 22>>

\* the query for 20 has answered with the discounts 50, 30, 25 and 22 of a
\* catalog whose discounts are 25, none, 30, 15, 50 and 22
C22_Witness ==
    /\ req[1].pc = "done" /\ req[1].op = "byMinDiscount" /\ req[1].status = 200
    /\ req[1].arg = <<"2", "0">>
    /\ [i \in 1..Len(products) |-> products[i].discountPercent]
           = <<Q(25, 1), Null, Q(30, 1), Q(15, 1), Q(50, 1), Q(22, 1)>>
    /\ [n \in 1..Len(req[1].data) |-> req[1].data[n].discountPercent.num] = <<50, 30, 25, 22>>

\* C24: product slugs are unique: in every state reachable by createProduct
\* and updateProduct calls no two stored products have the same slug.
C24_ProductSlugsUnique ==
    \A i, j \in 1..Len(products) : products[i].slug = products[j].slug => i = j

----------------------------------------------------------------------------
(* The statistics of a product's reviews *)

\* the rows of the reviews of product P
ReviewsOf(productId) ==
    {i \in 1..Len(productReviews) : productReviews[i].product_id = productId}

\* the sum of a column over the rows in `rows`
RECURSIVE Total(_, _)
Total(rows, column) ==
    IF rows = {} THEN 0
    ELSE LET i == CHOOSE k \in rows : TRUE
         IN  (IF column = "replies" THEN Len(productReviews[i].replies)
              ELSE productReviews[i][column]) + Total(rows \ {i}, column)

\* C25: getStats(P) aggregates over exactly the reviews of P: totalReviews
\* is their number, totalLikes, totalDislikes and totalReplies are the sums
\* of their likes, dislikes and numbers of replies, and mostLikedReview is
\* the first review of P whose likes are the maximum (null when P has no
\* review).
C25_StatsOverReviewsOfProduct ==
    (req[1].pc = "done" /\ req[1].op = "stats" /\ req[1].status = 200) =>
        LET of == ReviewsOf(req[1].product_id)
            data == req[1].data
        IN  /\ data.totalReviews = Cardinality(of)
            /\ data.totalLikes = Total(of, "likes")
            /\ data.totalDislikes = Total(of, "dislikes")
            /\ data.totalReplies = Total(of, "replies")
            /\ of = {} <=> data.mostLikedReview = Null
            /\ \A i \in of :
                   (/\ \A k \in of : productReviews[k].likes <= productReviews[i].likes
                    /\ \A k \in of : k < i => productReviews[k].likes < productReviews[i].likes)
                       => /\ data.mostLikedReview.review_id = productReviews[i].review_id
                          /\ data.mostLikedReview.likes = productReviews[i].likes

\* the statistics of a product with two reviews, the second of which has
\* the only like and is the most liked, while another product has a review
C25_Witness ==
    /\ req[1].pc = "done" /\ req[1].op = "stats" /\ req[1].status = 200
    /\ req[1].data.totalReviews = 2
    /\ req[1].data.totalLikes = 1
    /\ Len(productReviews) = 3
    /\ \E i \in ReviewsOf(req[1].product_id) :
           /\ productReviews[i].review_id = req[1].data.mostLikedReview.review_id
           /\ productReviews[i].likes = 1
           /\ \E k \in ReviewsOf(req[1].product_id) : k < i

----------------------------------------------------------------------------
(* The count that bulkDeleteReviews reports *)

\* C28: on success bulkDeleteReviews reports a deletedCount equal to the
\* number of review rows removed from the store, for every accepted
\* review_ids list, lists that name a review id more than once included.
C28_DeletedCountIsRowsRemoved ==
    [][bulkDeleteReviewsWrite(1) =>
          /\ req'[1].status = 200
          /\ req'[1].deletedCount = Len(productReviews) - Len(productReviews')]_vars

----------------------------------------------------------------------------
(* What the reaction handlers and the reply handlers write *)

\* the step is the storage write of `op` in slot r: the slot goes from its
\* write to its response
Writes(r, ops) == req[r].pc = "write" /\ req[r].op \in ops /\ req'[r].pc = "done"

\* C29: like, dislike and removeReaction leave comments and replies
\* unchanged, addReply and updateReview leave liked_by, disliked_by, likes
\* and dislikes unchanged, and none of them changes another review; so a
\* reaction written while an addReply on the same review has been answered
\* keeps the replies and adds the reaction, and a reply written while a
\* reaction has been answered keeps the reaction and adds the reply.
C29_ReactionsAndRepliesDisjoint ==
    [][\A r \in Slots :
          /\ Writes(r, {"like", "dislike", "remove"}) =>
                /\ Len(productReviews') = Len(productReviews)
                /\ \A i \in 1..Len(productReviews) :
                       /\ productReviews'[i].comments = productReviews[i].comments
                       /\ productReviews'[i].replies = productReviews[i].replies
                       /\ productReviews[i].review_id # req[r].id
                              => productReviews'[i] = productReviews[i]
          /\ Writes(r, {"reply", "update"}) =>
                /\ Len(productReviews') = Len(productReviews)
                /\ \A i \in 1..Len(productReviews) :
                       /\ productReviews'[i].liked_by = productReviews[i].liked_by
                       /\ productReviews'[i].disliked_by = productReviews[i].disliked_by
                       /\ productReviews'[i].likes = productReviews[i].likes
                       /\ productReviews'[i].dislikes = productReviews[i].dislikes
                       /\ productReviews[i].review_id # req[r].id
                              => productReviews'[i] = productReviews[i]
          /\ \A other \in Slots \ {r} :
                /\ (/\ Writes(r, {"like"})
                    /\ req[other].pc = "done" /\ req[other].op = "reply"
                    /\ req[other].status = 200 /\ req[other].id = req[r].id
                    /\ RowsById(req[r].id) # {}) =>
                       LET old == ReviewIn(productReviews, req[r].id)[1]
                           new == ReviewIn(productReviews', req[r].id)[1]
                       IN  /\ new.replies = old.replies
                           /\ Includes(new.liked_by, req[r].args.user_uuid)
                /\ (/\ Writes(r, {"reply"})
                    /\ req[other].pc = "done" /\ req[other].op \in {"like", "dislike"}
                    /\ req[other].status = 200 /\ req[other].id = req[r].id
                    /\ RowsById(req[r].id) # {}) =>
                       LET old == ReviewIn(productReviews, req[r].id)[1]
                           new == ReviewIn(productReviews', req[r].id)[1]
                       IN  /\ new.liked_by = old.liked_by
                           /\ new.disliked_by = old.disliked_by
                           /\ Len(new.replies) > 0
                           /\ new.replies[Len(new.replies)].user_uuid = req[r].args.user_uuid]_vars

\* a reply has been written to a review and answered while a like of the
\* same review, read from the row, is still to be written
C29_Witness ==
    \E r1, r2 \in Slots, id \in ReviewIdInputs :
        /\ AtWrite(r1, "like") /\ req[r1].id = id
        /\ req[r2].pc = "done" /\ req[r2].op = "reply" /\ req[r2].status = 200
        /\ req[r2].id = id
        /\ Len(SelectReview(id)) = 1
        /\ Len(SelectReview(id)[1].replies) = 1
        /\ SelectReview(id)[1].liked_by = <<>>

----------------------------------------------------------------------------
(* The children of stored combinations *)

\* C30: in every reachable state every child product_id of a stored
\* combination is the product_id of a stored product, also after a
\* deleteProduct of a product that is a child of some bundle.
C30_ChildrenExist ==
    \A i \in 1..Len(productCombinations) :
        \A k \in 1..Len(productCombinations[i].child_products) :
            ProductExists(productCombinations[i].child_products[k].product_id)

----------------------------------------------------------------------------
(* Variants looked up by their slug *)

\* C27: every active variant V whose parent product is stored is reachable
\* by its slug: getBySlug(V.slug) answers with selected_variant = V, in
\* every reachable state of the product and variant tables.
C27_VariantReachableBySlug ==
    GotBySlug =>
        \A k \in 1..Len(productVariants) :
            (/\ productVariants[k].slug = req[1].slug
             /\ productVariants[k].is_active
             /\ ProductExists(productVariants[k].parent_product_id)) =>
                /\ req[1].status = 200
                /\ "selected_variant" \in DOMAIN req[1].data
                /\ req[1].data.selected_variant = productVariants[k]

----------------------------------------------------------------------------
(* What deleteProduct removes *)

\* the rows of a table that belong to product P under column `parent`
RowsOf(table, parent, productId) ==
    {i \in 1..Len(table) : table[i][parent] = productId}

\* `new` is `old` without the rows of product P: no row of P is left, and
\* the rows of the other products are all there, as they were and in
\* their order
WithoutRowsOf(old, new, parent, productId) ==
    /\ RowsOf(new, parent, productId) = {}
    /\ Len(new) = Len(old) - Cardinality(RowsOf(old, parent, productId))
    /\ \A i \in 1..Len(old) :
           old[i][parent] # productId =>
               new[i - Cardinality({k \in RowsOf(old, parent, productId) : k < i})] = old[i]

\* C23: after deleteProduct(P) succeeds the store holds no variant and no
\* combination whose parent_product_id is P and no review whose product_id
\* is P, and the variants, combinations and reviews of every other product
\* are unchanged.
C23_DeleteProductCascades ==
    [][TakesUp("deleteProduct") =>
          \A productId \in StoreProductIdInputs :
              (deleteProduct(1, productId) /\ req'[1].status = 200) =>
                  /\ ~ProductExists(productId)'
                  /\ WithoutRowsOf(productVariants, productVariants',
                                   "parent_product_id", productId)
                  /\ WithoutRowsOf(productCombinations, productCombinations',
                                   "parent_product_id", productId)
                  /\ WithoutRowsOf(productReviews, productReviews', "product_id", productId)]_vars

\* p1 has been deleted with its review and its variant, and the review of
\* p2 is stored
C23_Witness ==
    /\ req[1].pc = "done" /\ req[1].op = "deleteProduct" /\ req[1].status = 200
    /\ req[1].product_id = P1
    /\ ~ProductExists(P1)
    /\ nextReviewId = 3 /\ nextVariantId = 2
    /\ Len(productReviews) = 1 /\ productReviews[1].product_id = P2
    /\ productVariants = <<>>

\* C26: the review row inserted by createReview carries exactly the
\* (product_id, user_uuid) pair on which the product, user and 'already
\* reviewed' lookups were done, for every input string, ids with leading or
\* trailing whitespace included.
C26_InsertedPairIsCheckedPair ==
    [][(createProductReviewInsert(1) /\ req'[1].status = 201) =>
          /\ Len(productReviews') = Len(productReviews) + 1
          /\ productReviews'[Len(productReviews')].product_id = req[1].args.product_id
          /\ productReviews'[Len(productReviews')].user_uuid = req[1].args.user_uuid]_vars

====
